---- MODULE Spec2Model ----
(***************************************************************************)
(* The CVE synchronization engine (backend/src/sync-service.ts, the        *)
(* snapshot with background sync, lines 179-561), its HTTP surface         *)
(* (backend/src/index.ts, lines 34-265), the record store it writes        *)
(* (backend/src/db.ts, lines 1-318), the request layer of the client      *)
(* (frontend/src/services/api.ts), the useCVEs hook with the view CVEDemo  *)
(* builds on it, and the virtualized lists and score classifiers.          *)
(*                                                                         *)
(* Six specifications share the module.  Spec and FairSpec run the         *)
(* engine behind its HTTP surface, with the store reduced to the set of    *)
(* cve_id it holds; DbSpec runs the store's own operations on the rows of  *)
(* the cves table; ApiSpec runs makeRequest and the cveApi calls of the    *)
(* client; HookSpec runs useCVEs, its timers and its requests; RenderSpec  *)
(* renders the lists and cards over the props and scroll positions they    *)
(* are given; TimingSpec computes the retry delays of the client and the   *)
(* remaining time of a run.  Each leaves the variables of the others as    *)
(* they are.                                                               *)
(*                                                                         *)
(* Node.js runs one callback at a time: every action below is the code     *)
(* that runs between two suspension points (an await of store or upstream  *)
(* I/O).  The continuation of a settled promise, with the microtasks it    *)
(* queues, belongs to the action that settles it.                          *)
(***************************************************************************)
EXTENDS Integers, Sequences, FiniteSets, Bags, TLC

\* ---------------------------------------------------------------- bounds
MaxReqs == 2        \* HTTP requests issued to the server in one behaviour
MaxFetch == 2       \* records the upstream feed holds at most
ChunkSize == 1      \* records per page of the chunked traversal
MaxPreloaded == 1   \* records the store may hold when the process starts
MaxIds == 2         \* distinct cve_id the callers of the store upsert
MaxData == 2        \* distinct payloads a record of one cve_id comes with
MaxUpserts == 2     \* insertCVE calls made in one behaviour of the store
MaxBatchLen == 2    \* records one insertCVEsBatch call is given at most
MaxBatchSize == 2   \* largest batchSize an insertCVEsBatch call is given
MaxCalls == 3       \* cveApi calls the client makes in one behaviour
MaxRetry == 1       \* retryAttempts the calls are configured with
MaxTime == 2        \* clock ticks that pass in one behaviour
MaxOps == 3         \* requests of the useCVEs hook in flight at one time
MaxRecords == 1     \* records a GET /api/cves answer carries at most
MaxItems == 50      \* records a virtualized list is given at most
HeightStep == 100   \* pixels between two item or container heights
MaxItemHeights == 2 \* item heights useVirtualScroll is called with
MaxHeights == 8     \* container heights a layout is given
ScrollStep == 150   \* pixels between two scroll offsets
MaxScrolls == 18    \* scroll offsets a container is scrolled to
MaxOverscan == 3    \* largest overscan useVirtualScroll is called with
MaxColumns == 4     \* columns of the grid layout
MaxScore == 100     \* largest CVSS score, in tenths
MaxAttempt == 5     \* largest attempt a retry delay is computed for
BaseStep == 500     \* milliseconds between two retryDelay settings
MaxBase == 4        \* retryDelay settings, in steps
JitterStep == 333   \* milliseconds between two values of the jitter
MaxJitter == 3      \* values of the jitter, in steps
MaxElapsed == 6     \* milliseconds a run has lasted when a page arrives
MaxTotal == 5       \* totalResults of the feed, for the remaining time

\* ------------------------------------------------------------- constants
Null == <<>>                        \* null / undefined
Some(x) == <<x>>                    \* a value where null is possible
Startup == 0                        \* the process that runs startServer
Reqs == 1..MaxReqs                  \* the HTTP requests, in order of arrival
Procs == {Startup} \cup Reqs

CveId(i) == <<"CVE", i>>
SYNC_ERROR == <<"SYNC_ERROR", 0>>
BACKGROUND_SYNC_ERROR == <<"BACKGROUND_SYNC_ERROR", 0>>

\* The messages of the errors syncCVEData can throw.
AlreadyInProgress == "Sync operation is already in progress"
NotHealthy == "Database is not healthy - cannot proceed with sync"
FetchErrors == {"timeout", "Network error", "NIST API returned error", "other"}

VARIABLES
  isRunning,              \* SyncService.isRunning
  lastSyncResult,         \* SyncService.lastSyncResult
  currentProgress,        \* SyncService.currentProgress
  backgroundSyncProcess,  \* SyncService.backgroundSyncProcess: Null or the run
  store,                  \* the cves table: the set of cve_id it holds
  listening,              \* app.listen was called: requests are served
  performedBackgroundSync,\* what performBackgroundStartupSync gave startServer
  pc,                     \* per process: where its call stands
  kind,                   \* per process: which operation it is
  resp,                   \* per request: HTTP status answered, 0 = none yet
  cves,                   \* per run: the records fetched so far
  total,                  \* per background run: totalResults of the feed
  storedCount,            \* per run: storedCount / totalStored
  errors,                 \* per run: its errors array
  insertLog,              \* per run: the cve_id of every insertCVE call made
  progressLog,            \* per run: the pages its progress callback was called
                          \* with, in the order of the calls
  tasks,                  \* the storeCVEsInBackground calls not yet settled
  statusBody,             \* body of the last GET /api/cves/sync/status answer
  cvesBody,               \* data of the last 200 answer of GET /api/cves
  table,                  \* the rows of the cves table
  sqlite_sequence,        \* the largest id AUTOINCREMENT has handed out
  upserts,                \* the records of the INSERT OR REPLACE statements
                          \* that succeeded and were not rolled back, in order
  lastID,                 \* what the last insertCVE call settled with
  txn,                    \* the open transaction: what BEGIN found, or Null
  batch,                  \* the insertCVEsBatch call: its locals and position
  cache,                  \* ApiCache.cache: per key, Null or its entry
  pendingRequests,        \* ApiCache.pendingRequests: per key, Null or the
                          \* call whose promise is registered
  now,                    \* Date.now(), in ticks
  isOnline,               \* networkMonitor.getState().isOnline
  requests,               \* per makeRequest call: its arguments, its locals,
                          \* where it stands and what its promise settled with; a
                          \* call with pc "joined" was handed the promise of
                          \* the call joinedTo
  hook,                   \* useCVEs: its state, its refs, and the error the
                          \* subscribed network listener closes over
  ops,                    \* useCVEs: the bag of its requests in flight
  snapshot,               \* which of the two useCVEs sources is running
  render,                 \* the component on screen: its props, its state
                          \* and what its last render computed
  timing                  \* the last delay or remaining time computed: the
                          \* function, its arguments and what it returned

engine == <<isRunning, lastSyncResult, currentProgress, backgroundSyncProcess>>
locals == <<cves, total, storedCount, errors, insertLog, progressLog>>
server == <<listening, performedBackgroundSync, pc, kind, resp, tasks,
            statusBody, cvesBody>>
dbVars == <<table, sqlite_sequence, upserts, lastID, txn, batch>>
apiVars == <<cache, pendingRequests, now, isOnline, requests>>
uiVars == <<hook, ops, snapshot, render, timing>>
dbAndClient == <<dbVars, apiVars, uiVars>>
vars == <<isRunning, lastSyncResult, currentProgress, backgroundSyncProcess,
          store, listening, performedBackgroundSync, pc, kind, resp,
          cves, total, storedCount, errors, insertLog, progressLog, tasks,
          statusBody, cvesBody, dbAndClient>>

\* ---------------------------------------------------------------- helpers
Feed(n) == [i \in 1..n |-> CveId(i)]

Min(a, b) == IF a < b THEN a ELSE b

\* The records of page k (1-based) of a feed of n records.
Page(n, k) == SubSeq(Feed(n), (k - 1) * ChunkSize + 1, Min(k * ChunkSize, n))

\* Pages a traversal of n records requests: one even when the feed is empty.
PageCount(n) == IF n = 0 THEN 1 ELSE (n + ChunkSize - 1) \div ChunkSize

\* Where a process can stand.  A run is active from the moment it set
\* isRunning until its call settled: "done" by a return, "failed" by an
\* exception.  "rejected" ends a trigger that started no run, "norun" a
\* startup that started none, "answered" a status request or a read.
ActivePcs == {"health", "fetch", "fetched", "store"}
SettledPcs == {"done", "failed"}

ActiveRuns == {p \in Procs : pc[p] \in ActivePcs}

\* The locals of an insertCVEsBatch call that has not been made.
BatchIdle ==
  [pc |-> "idle", cves |-> <<>>, batchSize |-> 0, startIndex |-> 0,
   pos |-> 0, batchInserted |-> 0, totalInserted |-> 0, processed |-> 0,
   errors |-> <<>>, result |-> Null]

\* The store's own variables after initDB on a new file: the table is empty.
DbIdle ==
  /\ table = {}
  /\ sqlite_sequence = 0
  /\ upserts = <<>>
  /\ lastID = Null
  /\ txn = Null
  /\ batch = BatchIdle

\* createCacheKey('/api/cves'): the one key the calls modelled here use.
CvesKey == "/api/cves"
Keys == {CvesKey}
Calls == 1..MaxCalls

\* A makeRequest call that has not been made.
NoRequest ==
  [pc |-> "idle", kind |-> "none", key |-> Null, config |-> Null,
   attempt |-> 0, invoked |-> 0, lastError |-> Null, settled |-> Null,
   joinedTo |-> 0]

\* The client after the module is loaded: nothing cached, nothing pending.
ApiIdle ==
  /\ cache = [k \in Keys |-> Null]
  /\ pendingRequests = [k \in Keys |-> Null]
  /\ now = 0
  /\ isOnline = TRUE
  /\ requests = [c \in Calls |-> NoRequest]

\* useCVEs before its first render: the useState and useRef initial values
\* (everLoaded is history: a fetch has stored its data; syncStatus is what
\* the last `await cveApi.getSyncStatus(...)` gave, Null for an error;
\* pollingIntervals and autoRefreshIntervals count the intervals window
\* .setInterval has set and clearInterval has not cleared).
NoHook ==
  [phase |-> "initial", cves |-> 0, loading |-> "idle", error |-> Null,
   networkState |-> TRUE, mounted |-> TRUE, pollingIntervalRef |-> Null,
   autoRefreshIntervalRef |-> Null, lastCVECount |-> 0,
   effectError |-> Null, everLoaded |-> FALSE, syncStatus |-> Null,
   pollingIntervals |-> 0, autoRefreshIntervals |-> 0]

\* No list and no card on screen.
NoRender == [component |-> "none"]

\* No delay and no remaining time computed yet.
NoTiming == [function |-> "none"]

\* The page before the component is rendered.
UiIdle ==
  /\ hook = NoHook
  /\ ops = EmptyBag
  /\ snapshot = "part_002"
  /\ render = NoRender
  /\ timing = NoTiming

\* The server process before startServer has run.
EngineStart ==
  /\ isRunning = FALSE
  /\ lastSyncResult = Null
  /\ currentProgress = Null
  /\ backgroundSyncProcess = Null
  /\ listening = FALSE
  /\ performedBackgroundSync = "pending"
  /\ pc = [p \in Procs |-> IF p = Startup THEN "boot" ELSE "idle"]
  /\ kind = [p \in Procs |-> IF p = Startup THEN "startup" ELSE "none"]
  /\ resp = [p \in Procs |-> 0]
  /\ cves = [p \in Procs |-> <<>>]
  /\ total = [p \in Procs |-> 0]
  /\ storedCount = [p \in Procs |-> 0]
  /\ errors = [p \in Procs |-> <<>>]
  /\ insertLog = [p \in Procs |-> <<>>]
  /\ progressLog = [p \in Procs |-> <<>>]
  /\ tasks = {}
  /\ statusBody = Null
  /\ cvesBody = Null

Init ==
  /\ EngineStart
  /\ store \in {{CveId(i) : i \in 1..n} : n \in 0..MaxPreloaded}
  /\ DbIdle
  /\ ApiIdle
  /\ UiIdle

\* ------------------------------------------------------------------ db.ts
\* checkDBHealth resolves true or false; the model lets either happen.
HealthOutcomes == BOOLEAN

\* getDBStats resolves {total: COUNT(*)}.
getDBStats == [total |-> Cardinality(store)]

\* insertCVE, INSERT OR REPLACE keyed by cve_id: the table after it resolved.
insertCVE(cve) == store \cup {cve}

\* getAllCVEs resolves the rows of the table.
getAllCVEs == store

\* -------------------------------------------------------- sync-service.ts
\* A guard that lets every trigger pass.
SyncGuardMissing == FALSE

\* syncCVEData / performBackgroundSync: `if (this.isRunning) throw ...`.
SyncGuard == isRunning

\* startBackgroundSync: `if (this.isRunning || this.backgroundSyncProcess)`.
BackgroundGuard == isRunning \/ backgroundSyncProcess # Null

\* A release written at the end of the try block instead of in a finally:
\* an exception skips it.
ReleaseSkippedByThrow(failed) == failed

\* The value of isRunning after the finally block, for a run that ended
\* by an exception (failed) or by a return.
FinallyIsRunning(failed) == FALSE

\* The comparison inverted.
DatabaseEmptyInverted(stats) == stats.total # 0

\* checkDatabaseEmpty: `return stats.total === 0`.
DatabaseEmpty(stats) == stats.total = 0

\* The result recorded by the catch block of syncCVEData.
SyncFailureResult ==
  [success |-> FALSE, fetched |-> 0, stored |-> 0,
   errs |-> <<SYNC_ERROR>>, alias |-> Null]

\* A catch block that reports what the run had collected when it failed.
BackgroundFailureKeepsPartial(p) ==
  [success |-> FALSE, fetched |-> Len(cves[p]), stored |-> storedCount[p],
   errs |-> <<>>, alias |-> Some(p)]

\* A catch block that hands on the pages fetched before the failure.
BackgroundFailureReturnsPages(p) ==
  [success |-> TRUE, fetched |-> Len(cves[p]), stored |-> storedCount[p],
   errs |-> <<>>, alias |-> Some(p)]

\* The result recorded by the catch block of performBackgroundSync.
BackgroundFailureResult(p) ==
  [success |-> FALSE, fetched |-> 0, stored |-> 0,
   errs |-> <<BACKGROUND_SYNC_ERROR>>, alias |-> Null]

\* A success flag that turns false when a record could not be stored.
SyncSuccessOnlyWithoutErrors(errs) == errs = <<>>

\* `success: true` of the result built after the store loop.
SyncSuccess(errs) == TRUE

\* A result that counts every record fetched as stored.
ResultCountingAttempts(p, fetched, stored, errs) ==
  [success |-> SyncSuccess(errs), fetched |-> fetched, stored |-> fetched,
   errs |-> <<>>, alias |-> Some(p)]

\* The result built after the store loop of syncCVEData and at the end of
\* performBackgroundSync: numbers are copied, `errors` is the run's own
\* array, held by reference (alias).
SuccessResult(p, fetched, stored, errs) ==
  [success |-> SyncSuccess(errs), fetched |-> fetched, stored |-> stored,
   errs |-> <<>>, alias |-> Some(p)]

\* The result of a sync that fetched nothing: `errors: []`.
EmptyResult ==
  [success |-> TRUE, fetched |-> 0, stored |-> 0, errs |-> <<>>, alias |-> Null]

\* The errors array a recorded result holds, as a reader sees it now.
ResultErrors(r) == IF r.alias = Null THEN r.errs ELSE errors[r.alias[1]]

\* A SyncResult as a reader of lastSyncResult sees it.
ResultView(r) ==
  [success |-> r.success, fetched |-> r.fetched, stored |-> r.stored,
   errors |-> ResultErrors(r)]

\* getSyncStatus: the SyncStatus object it returns.
getSyncStatus ==
  [isRunning |-> isRunning,
   lastSync |-> IF lastSyncResult = Null THEN Null
                ELSE Some(ResultView(lastSyncResult[1])),
   progress |-> currentProgress]

\* ---------------------------------------------------------------- index.ts
\* A catch block without the branch for the conflict.
SyncErrorStatusNoConflict(message) ==
  IF message = "timeout" THEN 408
  ELSE IF message = "Network error" THEN 503
  ELSE IF message = "NIST API returned error" THEN 502
  ELSE 500

\* The status code the catch block of POST /api/cves/sync answers with.
SyncErrorStatus(message) ==
  IF message = AlreadyInProgress THEN 409
  ELSE IF message = "timeout" THEN 408
  ELSE IF message = "Network error" THEN 503
  ELSE IF message = "NIST API returned error" THEN 502
  ELSE 500


\* ------------------------------------------------------------- the actions
IsBackground(p) == kind[p] \in {"startup", "background"}

IsBlocking(p) == kind[p] = "blocking"

\* Requests are numbered in the order the server receives them.
Arrives(p) ==
  /\ p \in Reqs
  /\ listening
  /\ pc[p] = "idle"
  /\ \A q \in Reqs : q < p => pc[q] # "idle"

\* The progress argument fetchAllCVEsInChunks passes to its callback.
Percentage(current, n) == IF n = 0 THEN 0 ELSE (current * 100) \div n

\* A guard that throws inside the try block: the finally of the rejected
\* call releases the flag the active run holds.
GuardInsideTry(p) ==
  IF BackgroundGuard
  THEN /\ pc' = [pc EXCEPT ![p] = "rejected"]
       /\ isRunning' = FALSE
       /\ UNCHANGED backgroundSyncProcess
  ELSE /\ isRunning' = TRUE
       /\ backgroundSyncProcess' = Some(p)
       /\ pc' = [pc EXCEPT ![p] = "health"]

\* startBackgroundSync, with the synchronous head of performBackgroundSync
\* (guard, isRunning = true, up to the await of checkDBHealth).  A
\* performBackgroundSync that throws at its guard rejects the promise held in
\* backgroundSyncProcess, whose finally handler then clears it.
startBackgroundSync(p) ==
  IF BackgroundGuard
  THEN /\ pc' = [pc EXCEPT ![p] = "rejected"]
       /\ UNCHANGED <<isRunning, backgroundSyncProcess>>
  ELSE IF SyncGuard
       THEN /\ pc' = [pc EXCEPT ![p] = "rejected"]
            /\ backgroundSyncProcess' = Null
            /\ UNCHANGED isRunning
       ELSE /\ isRunning' = TRUE
            /\ backgroundSyncProcess' = Some(p)
            /\ pc' = [pc EXCEPT ![p] = "health"]

\* startServer's catch of a failed performBackgroundStartupSync, then listen.
StartupThrows ==
  /\ performedBackgroundSync' = "throw"
  /\ pc' = [pc EXCEPT ![Startup] = "norun"]
  /\ listening' = TRUE
  /\ UNCHANGED <<engine, store, kind, resp, locals, tasks, statusBody, cvesBody, dbAndClient>>

\* checkDatabaseEmpty, first await: checkDBHealth.
StartupCheckHealth ==
  /\ pc[Startup] = "boot"
  /\ \E healthy \in HealthOutcomes :
       IF healthy
       THEN /\ pc' = [pc EXCEPT ![Startup] = "stats"]
            /\ UNCHANGED <<engine, store, listening, performedBackgroundSync,
                           kind, resp, locals, tasks, statusBody, cvesBody, dbAndClient>>
       ELSE StartupThrows

\* checkDatabaseEmpty, second await: getDBStats; then the branch of
\* performBackgroundStartupSync on its answer.
StartupGetStats ==
  /\ pc[Startup] = "stats"
  /\ \E answered \in BOOLEAN :
       IF ~answered
       THEN StartupThrows
       ELSE IF DatabaseEmpty(getDBStats)
            THEN /\ startBackgroundSync(Startup)
                 /\ performedBackgroundSync' = "true"
                 /\ listening' = TRUE
                 /\ UNCHANGED <<lastSyncResult, currentProgress, store, kind,
                                resp, locals, tasks, statusBody, cvesBody, dbAndClient>>
            ELSE /\ pc' = [pc EXCEPT ![Startup] = "stats2"]
                 /\ UNCHANGED <<engine, store, listening,
                                performedBackgroundSync, kind, resp, locals,
                                tasks, statusBody, cvesBody, dbAndClient>>

\* performBackgroundStartupSync, non-empty store: getDBStats for the log line.
StartupSkip ==
  /\ pc[Startup] = "stats2"
  /\ \E answered \in BOOLEAN :
       IF answered
       THEN /\ performedBackgroundSync' = "false"
            /\ pc' = [pc EXCEPT ![Startup] = "norun"]
            /\ listening' = TRUE
            /\ UNCHANGED <<engine, store, kind, resp, locals, tasks,
                           statusBody, cvesBody, dbAndClient>>
       ELSE StartupThrows

\* POST /api/cves/sync {background: true}.
PostSyncBackground(p) ==
  /\ Arrives(p)
  /\ kind' = [kind EXCEPT ![p] = "background"]
  /\ startBackgroundSync(p)
  /\ resp' = [resp EXCEPT ![p] = 202]
  /\ UNCHANGED <<lastSyncResult, currentProgress, store, listening,
                 performedBackgroundSync, locals, tasks, statusBody, cvesBody, dbAndClient>>

\* POST /api/cves/sync, blocking: syncCVEData up to its first await, or the
\* handler's catch of the guard's error.
PostSyncBlocking(p) ==
  /\ Arrives(p)
  /\ kind' = [kind EXCEPT ![p] = "blocking"]
  /\ IF SyncGuard
     THEN /\ pc' = [pc EXCEPT ![p] = "rejected"]
          /\ resp' = [resp EXCEPT ![p] = SyncErrorStatus(AlreadyInProgress)]
          /\ UNCHANGED isRunning
     ELSE /\ isRunning' = TRUE
          /\ pc' = [pc EXCEPT ![p] = "health"]
          /\ UNCHANGED resp
  /\ UNCHANGED <<lastSyncResult, currentProgress, backgroundSyncProcess,
                 store, listening, performedBackgroundSync, locals, tasks,
                 statusBody, cvesBody, dbAndClient>>

\* syncCVEData: catch, finally, and the handler's catch of the rethrown error.
SyncFails(p, message) ==
  /\ lastSyncResult' = Some(SyncFailureResult)
  /\ isRunning' = FinallyIsRunning(TRUE)
  /\ pc' = [pc EXCEPT ![p] = "failed"]
  /\ resp' = [resp EXCEPT ![p] = SyncErrorStatus(message)]
  /\ UNCHANGED <<currentProgress, backgroundSyncProcess, store, listening,
                 performedBackgroundSync, kind, locals, tasks, statusBody, cvesBody, dbAndClient>>

\* performBackgroundSync: catch and finally; then the handlers
\* startBackgroundSync chained on the promise.
BackgroundFails(p) ==
  /\ lastSyncResult' = Some(BackgroundFailureResult(p))
  /\ currentProgress' = Null
  /\ isRunning' = FinallyIsRunning(TRUE)
  /\ backgroundSyncProcess' = Null
  /\ pc' = [pc EXCEPT ![p] = "failed"]
  /\ UNCHANGED <<store, listening, performedBackgroundSync, kind, resp,
                 locals, tasks, statusBody, cvesBody, dbAndClient>>

\* `await checkDBHealth()` of a run settles.
CheckHealth(p) ==
  /\ pc[p] = "health"
  /\ \E healthy \in HealthOutcomes :
       IF ~healthy
       THEN IF IsBlocking(p) THEN SyncFails(p, NotHealthy)
            ELSE BackgroundFails(p)
       ELSE /\ pc' = [pc EXCEPT ![p] = "fetch"]
            /\ currentProgress' =
                 IF IsBlocking(p) THEN currentProgress
                 ELSE Some([current |-> 0, total |-> 0, percentage |-> 0,
                            phase |-> "fetching"])
            /\ UNCHANGED <<isRunning, lastSyncResult, backgroundSyncProcess,
                           store, listening, performedBackgroundSync, kind,
                           resp, locals, tasks, statusBody, cvesBody, dbAndClient>>

\* syncCVEData: `await fetchCVEsFromAPI(apiUrl)` settles.
FetchCVEs(p) ==
  /\ pc[p] = "fetch"
  /\ IsBlocking(p)
  /\ \/ \E message \in FetchErrors : SyncFails(p, message)
     \/ /\ lastSyncResult' = Some(EmptyResult)
        /\ isRunning' = FinallyIsRunning(FALSE)
        /\ pc' = [pc EXCEPT ![p] = "done"]
        /\ resp' = [resp EXCEPT ![p] = 200]
        /\ UNCHANGED <<currentProgress, backgroundSyncProcess, store,
                       listening, performedBackgroundSync, kind, locals,
                       tasks, statusBody, cvesBody, dbAndClient>>
     \/ \E n \in 1..MaxFetch :
          /\ cves' = [cves EXCEPT ![p] = Feed(n)]
          /\ pc' = [pc EXCEPT ![p] = "store"]
          /\ UNCHANGED <<engine, store, listening, performedBackgroundSync,
                         kind, resp, total, storedCount, errors, insertLog,
                         progressLog,
                         tasks, statusBody, cvesBody, dbAndClient>>

\* syncCVEData: one turn of the store loop, `await insertCVE(cve)` settles;
\* after the last record the result is built and returned.
StoreNext(p) ==
  /\ pc[p] = "store"
  /\ IsBlocking(p)
  /\ LET cve == cves[p][Len(insertLog[p]) + 1]
     IN \E inserted \in BOOLEAN :
          LET stored == IF inserted THEN storedCount[p] + 1
                        ELSE storedCount[p]
              errs == IF inserted THEN errors[p] ELSE Append(errors[p], cve)
              last == Len(insertLog[p]) + 1 = Len(cves[p])
          IN /\ insertLog' = [insertLog EXCEPT ![p] = Append(@, cve)]
             /\ store' = IF inserted THEN insertCVE(cve) ELSE store
             /\ storedCount' = [storedCount EXCEPT ![p] = stored]
             /\ errors' = [errors EXCEPT ![p] = errs]
             /\ IF last
                THEN /\ lastSyncResult' =
                          Some(SuccessResult(p, Len(cves[p]), stored, errs))
                     /\ isRunning' = FinallyIsRunning(FALSE)
                     /\ pc' = [pc EXCEPT ![p] = "done"]
                     /\ resp' = [resp EXCEPT ![p] = 200]
                ELSE UNCHANGED <<lastSyncResult, isRunning, pc, resp>>
             /\ UNCHANGED <<currentProgress, backgroundSyncProcess, listening,
                            performedBackgroundSync, kind, cves, total,
                            progressLog, tasks, statusBody, cvesBody,
                            dbAndClient>>


\* A traversal that requests the next page only when the stores started for
\* the earlier pages have settled.
FetchChunkAfterStores(p) ==
  /\ ~(\E t \in tasks : t.run = p)
  /\ pc[p] = "fetch"
  /\ IsBackground(p)
  /\ \/ BackgroundFails(p)
     \/ \E n \in (IF cves[p] = <<>> THEN 0..MaxFetch ELSE {total[p]}) :
          LET k == Len(cves[p]) \div ChunkSize + 1
              all == cves[p] \o Page(n, k)
          IN /\ cves' = [cves EXCEPT ![p] = all]
             /\ total' = [total EXCEPT ![p] = n]
             /\ progressLog' = [progressLog EXCEPT ![p] = Append(@, k)]
             /\ currentProgress' =
                  Some([current |-> Len(all), total |-> n,
                        percentage |-> Percentage(Len(all), n),
                        phase |-> "fetching"])
             /\ tasks' = IF Page(n, k) = <<>> THEN tasks
                         ELSE tasks \cup {[run |-> p, page |-> k,
                                           recs |-> Page(n, k), pos |-> 0,
                                           success |-> 0, errs |-> <<>>]}
             /\ pc' = [pc EXCEPT
                         ![p] = IF k >= PageCount(n) THEN "fetched" ELSE "fetch"]
             /\ UNCHANGED <<isRunning, lastSyncResult, backgroundSyncProcess,
                            store, listening, performedBackgroundSync, kind,
                            resp, storedCount, errors, insertLog, statusBody, cvesBody, dbAndClient>>

\* performBackgroundSync: one page request of fetchAllCVEsInChunks settles.
\* A failed page rejects the traversal.  A fetched page is handed to the
\* progress callback, which publishes the progress and starts
\* storeCVEsInBackground for the page's records without awaiting it; a call
\* with no records settles with nothing to add.
FetchChunk(p) ==
  /\ pc[p] = "fetch"
  /\ IsBackground(p)
  /\ \/ BackgroundFails(p)
     \/ \E n \in (IF cves[p] = <<>> THEN 0..MaxFetch ELSE {total[p]}) :
          LET k == Len(cves[p]) \div ChunkSize + 1
              all == cves[p] \o Page(n, k)
          IN /\ cves' = [cves EXCEPT ![p] = all]
             /\ total' = [total EXCEPT ![p] = n]
             /\ progressLog' = [progressLog EXCEPT ![p] = Append(@, k)]
             /\ currentProgress' =
                  Some([current |-> Len(all), total |-> n,
                        percentage |-> Percentage(Len(all), n),
                        phase |-> "fetching"])
             /\ tasks' = IF Page(n, k) = <<>> THEN tasks
                         ELSE tasks \cup {[run |-> p, page |-> k,
                                           recs |-> Page(n, k), pos |-> 0,
                                           success |-> 0, errs |-> <<>>]}
             /\ pc' = [pc EXCEPT
                         ![p] = IF k >= PageCount(n) THEN "fetched" ELSE "fetch"]
             /\ UNCHANGED <<isRunning, lastSyncResult, backgroundSyncProcess,
                            store, listening, performedBackgroundSync, kind,
                            resp, storedCount, errors, insertLog, statusBody, cvesBody, dbAndClient>>

\* performBackgroundSync: fetchAllCVEsInChunks resolved; the run records its
\* result, publishes phase 'complete' (phase 'storing' is overwritten before
\* any other code runs) and releases the flag; the promise's finally handler
\* clears backgroundSyncProcess.
FetchReturns(p) ==
  /\ pc[p] = "fetched"
  /\ lastSyncResult' =
       Some(SuccessResult(p, Len(cves[p]), storedCount[p], errors[p]))
  /\ currentProgress' =
       Some([current |-> storedCount[p], total |-> Len(cves[p]),
             percentage |-> 100, phase |-> "complete"])
  /\ isRunning' = FinallyIsRunning(FALSE)
  /\ backgroundSyncProcess' = Null
  /\ pc' = [pc EXCEPT ![p] = "done"]
  /\ UNCHANGED <<store, listening, performedBackgroundSync, kind, resp,
                 locals, tasks, statusBody, cvesBody, dbAndClient>>

\* storeCVEsInBackground: `await insertCVE(cve)` of one record settles; after
\* the last record the call resolves and the callback's then handler adds its
\* tally to the run's totalStored and errors.
StoreChunkNext(t) ==
  /\ t \in tasks
  /\ LET cve == t.recs[t.pos + 1]
         p == t.run
     IN \E inserted \in BOOLEAN :
          LET after == [t EXCEPT !.pos = @ + 1,
                                 !.success = IF inserted THEN @ + 1 ELSE @,
                                 !.errs = IF inserted THEN @
                                          ELSE Append(@, cve)]
          IN /\ insertLog' = [insertLog EXCEPT ![p] = Append(@, cve)]
             /\ store' = IF inserted THEN insertCVE(cve) ELSE store
             /\ IF after.pos = Len(t.recs)
                THEN /\ tasks' = tasks \ {t}
                     /\ storedCount' =
                          [storedCount EXCEPT ![p] = @ + after.success]
                     /\ errors' = [errors EXCEPT ![p] = @ \o after.errs]
                ELSE /\ tasks' = (tasks \ {t}) \cup {after}
                     /\ UNCHANGED <<storedCount, errors>>
             /\ UNCHANGED <<engine, listening, performedBackgroundSync, pc,
                            kind, resp, cves, total, progressLog, statusBody,
                            cvesBody, dbAndClient>>

\* A status read that consumes the progress it reports.
GetStatusConsumesProgress(p) ==
  /\ Arrives(p)
  /\ kind' = [kind EXCEPT ![p] = "status"]
  /\ pc' = [pc EXCEPT ![p] = "answered"]
  /\ resp' = [resp EXCEPT ![p] = 200]
  /\ statusBody' = Some(getSyncStatus)
  /\ currentProgress' = Null
  /\ UNCHANGED <<isRunning, lastSyncResult, backgroundSyncProcess, store,
                 listening, performedBackgroundSync, locals, tasks, cvesBody,
                 dbAndClient>>

\* GET /api/cves/sync/status: answers 200 with getSyncStatus().
GetStatus(p) ==
  /\ Arrives(p)
  /\ kind' = [kind EXCEPT ![p] = "status"]
  /\ pc' = [pc EXCEPT ![p] = "answered"]
  /\ resp' = [resp EXCEPT ![p] = 200]
  /\ statusBody' = Some(getSyncStatus)
  /\ UNCHANGED <<engine, store, listening, performedBackgroundSync, locals,
                 tasks, cvesBody, dbAndClient>>

\* A read that is refused while a sync is running.
GetCVEsRefusedWhileRunning(p) ==
  /\ Arrives(p)
  /\ kind' = [kind EXCEPT ![p] = "read"]
  /\ pc' = [pc EXCEPT ![p] = "answered"]
  /\ \E answered \in BOOLEAN :
       IF answered /\ ~isRunning
       THEN /\ resp' = [resp EXCEPT ![p] = 200]
            /\ cvesBody' = Some(getAllCVEs)
       ELSE /\ resp' = [resp EXCEPT ![p] = IF answered THEN 503 ELSE 500]
            /\ UNCHANGED cvesBody
  /\ UNCHANGED <<engine, store, listening, performedBackgroundSync, locals,
                 tasks, statusBody, dbAndClient>>

\* GET /api/cves: `await getAllCVEs()`; 200 with the rows, or 500 when the
\* query failed.
GetCVEs(p) ==
  /\ Arrives(p)
  /\ kind' = [kind EXCEPT ![p] = "read"]
  /\ pc' = [pc EXCEPT ![p] = "answered"]
  /\ \E answered \in BOOLEAN :
       IF answered
       THEN /\ resp' = [resp EXCEPT ![p] = 200]
            /\ cvesBody' = Some(getAllCVEs)
       ELSE /\ resp' = [resp EXCEPT ![p] = 500]
            /\ UNCHANGED cvesBody
  /\ UNCHANGED <<engine, store, listening, performedBackgroundSync, locals,
                 tasks, statusBody, dbAndClient>>

Next ==
  \/ StartupCheckHealth
  \/ StartupGetStats
  \/ StartupSkip
  \/ \E p \in Reqs : PostSyncBackground(p)
  \/ \E p \in Reqs : PostSyncBlocking(p)
  \/ \E p \in Reqs : GetStatus(p)
  \/ \E p \in Reqs : GetCVEs(p)
  \/ \E p \in Procs : CheckHealth(p)
  \/ \E p \in Procs : FetchCVEs(p)
  \/ \E p \in Procs : StoreNext(p)
  \/ \E p \in Procs : FetchChunk(p)
  \/ \E p \in Procs : FetchReturns(p)
  \/ \E t \in tasks : StoreChunkNext(t)

Spec == Init /\ [][Next]_vars

\* Every await of a run eventually settles.
RunStep(p) ==
  CheckHealth(p) \/ FetchCVEs(p) \/ StoreNext(p) \/ FetchChunk(p)
    \/ FetchReturns(p)

FairSpec == Spec /\ \A p \in Procs : WF_vars(RunStep(p))

\* ------------------------------------------------- db.ts, the cves table
\* What the callers of the store upsert: a cve_id and, as `data`, the other
\* columns of the record.
CveIds == {CveId(i) : i \in 1..MaxIds}

Records == [cve_id : CveIds, data : 1..MaxData]

BatchInputs == UNION {[1..n -> Records] : n \in 0..MaxBatchLen}

BATCH_FINALIZE_ERROR == <<"BATCH_FINALIZE_ERROR", 0>>
BATCH_COMMIT_ERROR == <<"BATCH_COMMIT_ERROR", 0>>

\* An INSERT into a table whose cve_id column is not UNIQUE.
InsertWithoutUnique(rows, seq, cve) ==
  rows \cup {[id |-> seq + 1, cve_id |-> cve.cve_id, data |-> cve.data]}

\* `INSERT OR REPLACE INTO cves (cve_id, ...)` on the table of initDB: the
\* row that holds the cve_id (UNIQUE) is deleted, and the record is inserted
\* as a new row whose id AUTOINCREMENT takes above every id handed out.
InsertOrReplace(rows, seq, cve) ==
  {r \in rows : r.cve_id # cve.cve_id}
    \cup {[id |-> seq + 1, cve_id |-> cve.cve_id, data |-> cve.data]}

\* One INSERT OR REPLACE statement ran: with an error it changes nothing.
Statement(cve, err) ==
  IF err
  THEN UNCHANGED <<table, sqlite_sequence, upserts, store>>
  ELSE /\ table' = InsertOrReplace(table, sqlite_sequence, cve)
       /\ sqlite_sequence' = sqlite_sequence + 1
       /\ upserts' = Append(upserts, cve)
       /\ store' = insertCVE(cve.cve_id)

\* What a transaction restores when it is rolled back.
Snapshot(rows, seq, log, ids) ==
  [table |-> rows, sqlite_sequence |-> seq, upserts |-> log, store |-> ids]

\* insertCVE(cve): db.run settles, the promise resolves this.lastID or
\* rejects.  The statements of one processBatch call are queued together,
\* so the statement of another call runs before BEGIN or after COMMIT.
CallInsertCVE ==
  /\ txn = Null
  /\ Len(upserts) < MaxUpserts
  /\ \E cve \in Records, err \in BOOLEAN :
       /\ Statement(cve, err)
       /\ lastID' = IF err THEN Null ELSE Some(sqlite_sequence + 1)
  /\ UNCHANGED <<engine, server, locals, txn, batch, apiVars, uiVars>>

\* insertCVEsBatch(cves, batchSize) up to processBatch(0), whose BEGIN
\* TRANSACTION opens the transaction of the first batch.
BatchStart ==
  /\ batch.pc = "idle"
  /\ txn = Null
  /\ \E input \in BatchInputs, size \in 1..MaxBatchSize :
       IF input = <<>>
       THEN /\ batch' = [BatchIdle EXCEPT
                           !.pc = "resolved", !.batchSize = size,
                           !.result = Some([inserted |-> 0, errors |-> <<>>])]
            /\ UNCHANGED txn
       ELSE /\ batch' = [BatchIdle EXCEPT
                           !.pc = "run", !.cves = input, !.batchSize = size]
            /\ txn' = Some(Snapshot(table, sqlite_sequence, upserts, store))
  /\ UNCHANGED <<engine, server, locals, store, table, sqlite_sequence,
                 upserts, lastID, apiVars, uiVars>>

\* processBatch: `Math.min(startIndex + batchSize, cves.length)`.
endIndex == Min(batch.startIndex + batch.batchSize, Len(batch.cves))

\* The callback of one stmt.run of the batch.
BatchRun ==
  /\ batch.pc = "run"
  /\ LET cve == batch.cves[batch.startIndex + batch.pos + 1]
     IN \E err \in BOOLEAN :
          /\ Statement(cve, err)
          /\ batch' = [batch EXCEPT
                        !.pos = @ + 1,
                        !.errors = IF err THEN Append(@, cve.cve_id) ELSE @,
                        !.batchInserted = IF err THEN @ ELSE @ + 1,
                        !.pc = IF batch.startIndex + batch.pos + 1 = endIndex
                               THEN "finalize" ELSE "run"]
  /\ UNCHANGED <<engine, server, locals, lastID, txn, apiVars, uiVars>>

\* The callback of stmt.finalize.
BatchFinalize ==
  /\ batch.pc = "finalize"
  /\ \E err \in BOOLEAN :
       batch' = [batch EXCEPT
                   !.pc = "commit",
                   !.errors = IF err THEN Append(@, BATCH_FINALIZE_ERROR)
                              ELSE @]
  /\ UNCHANGED <<engine, server, locals, store, table, sqlite_sequence,
                 upserts, lastID, txn, apiVars, uiVars>>

\* The callback of COMMIT: the tally, then the next processBatch or the
\* result.  A COMMIT that failed either left the transaction's rows in
\* place or rolled them back.
BatchCommit ==
  /\ batch.pc = "commit"
  /\ \E err \in BOOLEAN, rolledBack \in BOOLEAN :
       LET totalInserted == IF err THEN batch.totalInserted
                            ELSE batch.totalInserted + batch.batchInserted
           errs == IF err THEN Append(batch.errors, BATCH_COMMIT_ERROR)
                   ELSE batch.errors
           processed == batch.processed + (endIndex - batch.startIndex)
       IN /\ rolledBack => err
          /\ IF rolledBack
             THEN /\ table' = txn[1].table
                  /\ sqlite_sequence' = txn[1].sqlite_sequence
                  /\ upserts' = txn[1].upserts
                  /\ store' = txn[1].store
             ELSE UNCHANGED <<table, sqlite_sequence, upserts, store>>
          /\ IF endIndex < Len(batch.cves)
             THEN /\ batch' = [batch EXCEPT
                                 !.pc = "run", !.startIndex = endIndex,
                                 !.pos = 0, !.batchInserted = 0,
                                 !.totalInserted = totalInserted,
                                 !.processed = processed, !.errors = errs]
                  /\ txn' = Some(Snapshot(table', sqlite_sequence',
                                          upserts', store'))
             ELSE /\ batch' = [batch EXCEPT
                                 !.pc = "resolved",
                                 !.totalInserted = totalInserted,
                                 !.processed = processed, !.errors = errs,
                                 !.result = Some([inserted |-> totalInserted,
                                                  errors |-> errs])]
                  /\ txn' = Null
  /\ UNCHANGED <<engine, server, locals, lastID, apiVars, uiVars>>

\* The cve_id that have been upserted.
Upserted == {upserts[i].cve_id : i \in 1..Len(upserts)}

\* The payload of the latest upsert of cve_id c in the log, if there is one.
Latest(log, c) ==
  LET at == {i \in 1..Len(log) : log[i].cve_id = c}
  IN IF at = {} THEN Null
     ELSE Some(log[CHOOSE i \in at : \A j \in at : j <= i].data)

DbInit ==
  /\ EngineStart
  /\ store = {}
  /\ DbIdle
  /\ ApiIdle
  /\ UiIdle

DbNext ==
  \/ CallInsertCVE
  \/ BatchStart
  \/ BatchRun
  \/ BatchFinalize
  \/ BatchCommit

DbSpec == DbInit /\ [][DbNext]_vars

\* ------------------------------------------------ frontend, services/api.ts
\* One tick of the clock is five minutes: CACHE_TIMEOUT is 5 * 60 * 1000 ms.
CACHE_TIMEOUT == 1

\* What a failed attempt carries as apiError.status: a 4xx, a 5xx, or 0 for
\* a failure without status (network error, timeout).
FailureStatuses == {0, 404, 500}

\* The RequestConfig values the callers pass; cacheTimeout is the default.
Configs ==
  [enableRetry : BOOLEAN, retryAttempts : {MaxRetry},
   enableCache : BOOLEAN, deduplication : BOOLEAN]

\* An entry that never expires.
ExpiredNever(entry) == FALSE

\* ApiCache.get: `Date.now() > entry.expiresAt`.
Expired(entry) == now > entry.expiresAt

\* ApiCache.get returns the entry's data (and not null).
CacheHit(key) == cache[key] # Null /\ ~Expired(cache[key][1])

\* ApiCache.get: the cache after the call; a miss deletes the key.
CacheAfterGet(key) ==
  IF CacheHit(key) THEN cache ELSE [cache EXCEPT ![key] = Null]

\* ApiCache.set(key, data, timeout).
CacheSet(key, data, timeout) ==
  [cache EXCEPT ![key] = Some([data |-> data, timestamp |-> now,
                                expiresAt |-> now + timeout])]

\* cache.deletePendingRequest(cacheKey) under `if (cacheKey)`.
DeletePending(key) ==
  IF key = Null THEN pendingRequests
  ELSE [pendingRequests EXCEPT ![key[1]] = Null]

\* A retry decision that does not look at the status.
ShouldRetryAnyStatus(config, attempt, status) ==
  config.enableRetry /\ attempt < config.retryAttempts

\* A retry decision that does not look at the attempt count.
ShouldRetryUnbounded(config, attempt, status) ==
  config.enableRetry /\ (IF status # 0 THEN status >= 500 ELSE TRUE)

\* executeRequest: `shouldRetry`.
ShouldRetry(config, attempt, status) ==
  /\ config.enableRetry
  /\ attempt < config.retryAttempts
  /\ (IF status # 0 THEN status >= 500 ELSE TRUE)

\* A call whose promise settles after an await is over: its arguments and
\* locals are gone, what is left is what the promise settled with.  A call
\* whose promise is settled when makeRequest returns keeps its arguments.
Forget(r) == IF r.pc = "idle" THEN r ELSE [NoRequest EXCEPT !.kind = r.kind]

\* executeRequest, catch block after deletePendingRequest: the call sleeps
\* before executeRequest(attempt + 1), or its promise rejects with the error.
Caught(r, status) ==
  IF ShouldRetry(r.config, r.attempt, status)
  THEN [r EXCEPT !.pc = "backoff", !.lastError = Some(status)]
  ELSE [Forget(r) EXCEPT !.pc = "rejected",
                         !.settled = Some([ok |-> FALSE, value |-> status])]

\* executeRequest(attempt) up to its first await: offline it throws into
\* its own catch block, online it invokes requestFn.
Execute(r) ==
  IF ~isOnline THEN Caught(r, 0)
  ELSE [r EXCEPT !.pc = "fetching", !.invoked = @ + 1, !.lastError = Null]

\* Calls are numbered in the order they are made.
Starts(c) ==
  /\ c \in Calls
  /\ requests[c].pc = "idle"
  /\ \A b \in Calls : b < c => requests[b].pc # "idle"

\* makeRequest(requestFn, cacheKey, config) up to its return: the cache
\* lookup, the pending lookup, executeRequest() up to its first await, and
\* setPendingRequest.
makeRequest(c, call, key, config, cached) ==
  LET r == [NoRequest EXCEPT !.kind = call, !.key = key, !.config = config]
      lookup == key # Null /\ config.enableCache
      got == IF lookup THEN CacheAfterGet(key[1]) ELSE cached
  IN /\ cache' = got
     /\ IF lookup /\ got[key[1]] # Null
        THEN /\ requests' =
                  [requests EXCEPT
                     ![c] = [r EXCEPT
                               !.pc = "cached",
                               !.settled = Some([ok |-> TRUE,
                                                 value |-> got[key[1]][1].data])]]
             /\ UNCHANGED pendingRequests
        ELSE IF lookup /\ config.deduplication
                  /\ pendingRequests[key[1]] # Null
             THEN /\ requests' =
                       [requests EXCEPT
                          ![c] = [r EXCEPT
                                    !.pc = "joined",
                                    !.joinedTo = pendingRequests[key[1]][1]]]
                  /\ UNCHANGED pendingRequests
             ELSE /\ requests' = [requests EXCEPT ![c] = Execute(r)]
                  /\ pendingRequests' =
                       IF key # Null /\ config.deduplication
                       THEN [pendingRequests EXCEPT ![key[1]] = Some(c)]
                       ELSE IF isOnline THEN pendingRequests
                            ELSE DeletePending(key)

\* cveApi.getAllCVEs(config).
cveApi_getAllCVEs(c) ==
  /\ Starts(c)
  /\ \E config \in Configs :
       makeRequest(c, "getAllCVEs", Some(CvesKey), config, cache)
  /\ UNCHANGED <<engine, server, locals, store, dbVars, uiVars, now, isOnline>>

\* cveApi.syncCVEs(config): deletes the cached '/api/cves' entry, then
\* makeRequest without a key and with enableCache: false.  No caller sets
\* deduplication, which has no effect without a key: it is the default.
cveApi_syncCVEs(c) ==
  /\ Starts(c)
  /\ \E config \in Configs :
       /\ ~config.enableCache
       /\ config.deduplication
       /\ makeRequest(c, "syncCVEs", Null, config,
                      [cache EXCEPT ![CvesKey] = Null])
  /\ UNCHANGED <<engine, server, locals, store, dbVars, uiVars, now, isOnline>>

\* executeRequest: `await requestFn()` settles, with the response (its data
\* is named after the call that fetched it) or with an error.
Respond(c) ==
  /\ requests[c].pc = "fetching"
  /\ LET r == requests[c]
     IN \/ /\ requests' =
                [requests EXCEPT
                   ![c] = [Forget(r) EXCEPT
                             !.pc = "resolved",
                             !.settled = Some([ok |-> TRUE, value |-> c])]]
           /\ IF r.key # Null /\ r.config.enableCache
              THEN /\ cache' = CacheSet(r.key[1], c, CACHE_TIMEOUT)
                   /\ pendingRequests' = DeletePending(r.key)
              ELSE UNCHANGED <<cache, pendingRequests>>
        \/ \E status \in FailureStatuses :
             /\ requests' = [requests EXCEPT ![c] = Caught(r, status)]
             /\ pendingRequests' = DeletePending(r.key)
             /\ UNCHANGED cache
  /\ UNCHANGED <<engine, server, locals, store, dbVars, uiVars, now, isOnline>>

\* executeRequest: `await sleep(delay)` is over, executeRequest(attempt + 1)
\* runs up to its first await.
Wake(c) ==
  /\ requests[c].pc = "backoff"
  /\ requests' =
       [requests EXCEPT ![c] = Execute([requests[c] EXCEPT !.attempt = @ + 1])]
  /\ pendingRequests' =
       IF isOnline THEN pendingRequests ELSE DeletePending(requests[c].key)
  /\ UNCHANGED <<engine, server, locals, store, dbVars, uiVars, cache, now, isOnline>>

\* Time passes.
Tick ==
  /\ now < MaxTime
  /\ now' = now + 1
  /\ UNCHANGED <<engine, server, locals, store, dbVars, uiVars, cache,
                 pendingRequests, isOnline, requests>>

\* NetworkMonitor: the 'online' or the 'offline' event of the window.
NetworkChange ==
  /\ isOnline' = ~isOnline
  /\ UNCHANGED <<engine, server, locals, store, dbVars, uiVars, cache,
                 pendingRequests, now, requests>>

\* The step in which call c is made.
Made(c) == requests[c].pc = "idle" /\ requests'[c].pc # "idle"

\* The calls whose executeRequest has not settled its promise.
InFlight == {c \in Calls : requests[c].pc \in {"fetching", "backoff"}}

ApiInit ==
  /\ EngineStart
  /\ store = {}
  /\ DbIdle
  /\ ApiIdle
  /\ UiIdle

ApiNext ==
  \/ \E c \in Calls : cveApi_getAllCVEs(c)
  \/ \E c \in Calls : cveApi_syncCVEs(c)
  \/ \E c \in Calls : Respond(c)
  \/ \E c \in Calls : Wake(c)
  \/ Tick
  \/ NetworkChange

ApiSpec == ApiInit /\ [][ApiNext]_vars

\* ------------------------------------------ frontend, the useCVEs hook
\* unnamed/part_002 is the hook with the periodic refresh, unnamed/part_003
\* the one without; CVEDemo.tsx renders what the hook returns.  With
\* enableCache: false, as in every call of the hook, makeRequest reads
\* neither the cache nor the pending map: what it does to them is ApiSpec's.
\* part_003 names startPolling in the dependency list of syncCVEs (line 82)
\* above its declaration (line 89): a build that keeps `const` throws in
\* every render and the hook never mounts, which is a behaviour without
\* Mount; a build that hoists the name renders as modelled.
Snapshots == {"part_002", "part_003"}

\* `new Error('No internet connection')`, thrown by executeRequest offline.
NoInternet == [message |-> "No internet connection", status |-> 0]

\* What the response interceptor rejects a call with: an error without
\* status, the 500 of a read, or the 409 of a sync trigger.
ResponseErrors(call) ==
  {[message |-> "Network Error", status |-> 0],
   IF call = "syncCVEs"
   THEN [message |-> AlreadyInProgress, status |-> 409]
   ELSE [message |-> "Internal server error", status |-> 500]}

\* GET /api/cves/sync/status answers SyncService.getSyncStatus().
StatusBodies == [isRunning : BOOLEAN]

\* A setInterval handle.
Timer == Some("interval")

\* The RequestConfig of the hook's calls, retryAttempts capped at MaxRetry.
ConfigOf(o) ==
  [enableRetry |-> o.kind # "getSyncStatus", retryAttempts |-> MaxRetry,
   enableCache |-> FALSE, deduplication |-> TRUE]

\* One request of the hook: which cveApi call, where its executeRequest
\* stands, and the locals of the code that awaits it.
NewOp(call, silent, by) ==
  [kind |-> call, pc |-> "idle", attempt |-> 0, silent |-> silent, by |-> by]

AddOp(b, o) == b (+) SetToBag({o})
RemoveOp(b, o) == b (-) SetToBag({o})

\* The pair the operators below take and give: the hook and its requests.
St(h, b) == [hook |-> h, ops |-> b]

\* startPolling / stopPolling.
startPolling(h) ==
  IF h.pollingIntervalRef # Null THEN h
  ELSE [h EXCEPT !.pollingIntervalRef = Timer, !.pollingIntervals = @ + 1]

stopPolling(h) ==
  IF h.pollingIntervalRef # Null
  THEN [h EXCEPT !.pollingIntervalRef = Null, !.pollingIntervals = @ - 1]
  ELSE h

\* startAutoRefresh / stopAutoRefresh.
startAutoRefresh(h) ==
  IF h.autoRefreshIntervalRef # Null THEN h
  ELSE [h EXCEPT !.autoRefreshIntervalRef = Timer,
                 !.autoRefreshIntervals = @ + 1]

stopAutoRefresh(h) ==
  IF h.autoRefreshIntervalRef # Null
  THEN [h EXCEPT !.autoRefreshIntervalRef = Null,
                 !.autoRefreshIntervals = @ - 1]
  ELSE h

\* fetchCVEs, the catch block.
FetchRejected(h, silent, message) ==
  IF ~h.mounted THEN h
  ELSE [h EXCEPT !.error = Some(message),
                 !.loading = IF silent THEN @ ELSE "error"]

\* fetchCVEs after `await cveApi.getAllCVEs(...)`, data being the records.
FetchFulfilled(h, silent, data) ==
  IF ~h.mounted THEN h
  ELSE [h EXCEPT !.cves = data, !.lastCVECount = data,
                 !.loading = IF silent THEN @ ELSE "success",
                 !.everLoaded = TRUE]

\* The promise of request o rejects: the catch block of the code awaiting it.
Rejected(st, o, message) ==
  CASE o.kind = "getAllCVEs" ->
         St(FetchRejected(st.hook, o.silent, message), st.ops)
    [] o.kind = "getSyncStatus" ->
         St([st.hook EXCEPT !.syncStatus = Null], st.ops)
    [] o.kind = "syncCVEs" ->
         St([st.hook EXCEPT !.error = Some(message), !.loading = "error"],
            st.ops)

\* executeRequest, the catch block: sleep before the next attempt, or throw.
catchError(st, o, e) ==
  IF ShouldRetry(ConfigOf(o), o.attempt, e.status)
  THEN St(st.hook, AddOp(st.ops, [o EXCEPT !.pc = "backoff"]))
  ELSE Rejected(st, o, e.message)

\* executeRequest(attempt) up to its first await.
executeRequest(st, o, online) ==
  IF online THEN St(st.hook, AddOp(st.ops, [o EXCEPT !.pc = "fetching"]))
  ELSE catchError(st, o, NoInternet)

\* fetchCVEs(silent) up to its await.
fetchCVEs(st, silent, online) ==
  IF ~st.hook.mounted THEN st
  ELSE executeRequest(
         St(IF silent THEN st.hook
            ELSE [st.hook EXCEPT !.loading = "loading", !.error = Null],
            st.ops),
         NewOp("getAllCVEs", silent, "fetchCVEs"), online)

\* `syncStatus.isActive` in part_002, a field the answer does not have, and
\* `syncStatus.isRunning` in part_003.
SyncActive(body) == snapshot = "part_003" /\ body.isRunning

\* The promise of request o fulfils: the code after the await.
Fulfilled(st, o, data, body) ==
  CASE o.kind = "getAllCVEs" ->
         St(FetchFulfilled(st.hook, o.silent, data), st.ops)
    [] o.kind = "getSyncStatus" /\ o.by = "poll" ->
         LET h == [st.hook EXCEPT !.syncStatus = Some(body)]
         IN IF SyncActive(body) THEN fetchCVEs(St(h, st.ops), TRUE, isOnline)
            ELSE fetchCVEs(St(stopPolling(h), st.ops), TRUE, isOnline)
    [] o.kind = "getSyncStatus" /\ o.by = "checkSyncStatus" ->
         LET h == [st.hook EXCEPT !.syncStatus = Some(body)]
         IN IF SyncActive(body) THEN St(startPolling(h), st.ops)
            ELSE St(h, st.ops)
    [] o.kind = "syncCVEs" ->
         fetchCVEs(St(startPolling(st.hook), st.ops), FALSE, isOnline)

\* What CVEDemo renders.
View ==
  IF hook.phase # "mounted" THEN "none"
  ELSE IF hook.loading = "loading" /\ hook.cves = 0 THEN "spinner"
  ELSE IF hook.error # Null /\ hook.cves = 0 THEN "error"
  ELSE "content"

\* The error banner of the content view.
Banner == View = "content" /\ hook.error # Null /\ hook.cves > 0

Leaves == UNCHANGED <<engine, server, locals, store, dbVars, cache,
                      pendingRequests, now, requests, snapshot, render,
                      timing>>

\* The first render: the two effects run in order.
Mount ==
  /\ hook.phase = "initial"
  /\ LET h == [hook EXCEPT !.phase = "mounted", !.mounted = TRUE]
         fetched == fetchCVEs(St(h, ops), FALSE, isOnline)
         checked == executeRequest(
                      fetched, NewOp("getSyncStatus", FALSE, "checkSyncStatus"),
                      isOnline)
     IN /\ hook' = IF snapshot = "part_002"
                   THEN startAutoRefresh(checked.hook) ELSE checked.hook
        /\ ops' = checked.ops
  /\ UNCHANGED isOnline
  /\ Leaves

\* The render after `error` changed: the cleanup of the network effect,
\* then the effect again, its listener closing over the new error.
EffectRerun ==
  /\ hook.phase = "mounted"
  /\ hook.effectError # hook.error
  /\ hook' = stopAutoRefresh(stopPolling(
               [hook EXCEPT !.effectError = hook.error, !.mounted = FALSE]))
  /\ UNCHANGED <<ops, isOnline>>
  /\ Leaves

\* The component leaves the page: the cleanups of the two effects, the
\* first of which unsubscribes the listener.
Unmount ==
  /\ hook.phase = "mounted"
  /\ hook' = stopAutoRefresh(stopPolling(
               [hook EXCEPT !.phase = "unmounted", !.mounted = FALSE]))
  /\ UNCHANGED <<ops, isOnline>>
  /\ Leaves

\* NetworkMonitor.updateState on the 'online' / 'offline' event, and the
\* listener the hook subscribed.
HookNetworkChange ==
  /\ hook.phase = "mounted"
  /\ BagCardinality(ops) < MaxOps
  /\ isOnline' = ~isOnline
  /\ LET h == [hook EXCEPT !.networkState = isOnline']
         st == IF isOnline' /\ hook.effectError = Some(NoInternet.message)
               THEN fetchCVEs(St([h EXCEPT !.error = Null], ops), FALSE,
                              isOnline')
               ELSE St(h, ops)
     IN hook' = st.hook /\ ops' = st.ops
  /\ Leaves

\* The callback of the polling interval.
PollTick ==
  /\ hook.pollingIntervalRef # Null
  /\ BagCardinality(ops) < MaxOps
  /\ LET st == IF ~hook.mounted THEN St(hook, ops)
               ELSE executeRequest(St(hook, ops),
                                   NewOp("getSyncStatus", FALSE, "poll"),
                                   isOnline)
     IN hook' = st.hook /\ ops' = st.ops
  /\ UNCHANGED isOnline
  /\ Leaves

\* The callback of the auto-refresh interval.
AutoRefreshTick ==
  /\ hook.autoRefreshIntervalRef # Null
  /\ BagCardinality(ops) < MaxOps
  /\ LET st == IF ~hook.mounted THEN St(hook, ops)
               ELSE fetchCVEs(St(hook, ops), TRUE, isOnline)
     IN hook' = st.hook /\ ops' = st.ops
  /\ UNCHANGED isOnline
  /\ Leaves

\* A click on "Try Again" or "Refresh": `onClick={refetch}` hands the click
\* event to fetchCVEs as `silent`, and an event is truthy.
ClickRefresh ==
  /\ View \in {"error", "content"}
  /\ hook.loading # "loading"
  /\ BagCardinality(ops) < MaxOps
  /\ LET st == fetchCVEs(St(hook, ops), TRUE, isOnline)
     IN hook' = st.hook /\ ops' = st.ops
  /\ UNCHANGED isOnline
  /\ Leaves

\* A click on "Sync CVEs": the hook's syncCVEs up to its await.
ClickSync ==
  /\ View \in {"error", "content"}
  /\ hook.loading # "loading"
  /\ BagCardinality(ops) < MaxOps
  /\ LET h == [hook EXCEPT !.loading = "loading", !.error = Null]
         st == executeRequest(St(h, ops), NewOp("syncCVEs", FALSE, "syncCVEs"),
                              isOnline)
     IN hook' = st.hook /\ ops' = st.ops
  /\ UNCHANGED isOnline
  /\ Leaves

\* `await requestFn()` of a request of the hook settles.
HookRespond ==
  /\ \E o \in BagToSet(ops) :
       /\ o.pc = "fetching"
       /\ LET rest == St(hook, RemoveOp(ops, o))
          IN \E st \in
                  {Fulfilled(rest, o, data, body) :
                     data \in 0..MaxRecords, body \in StatusBodies}
                  \cup {catchError(rest, o, e) : e \in ResponseErrors(o.kind)} :
               hook' = st.hook /\ ops' = st.ops
  /\ UNCHANGED isOnline
  /\ Leaves

\* `await sleep(delay)` of a request of the hook is over.
HookWake ==
  /\ \E o \in BagToSet(ops) :
       /\ o.pc = "backoff"
       /\ LET st == executeRequest(St(hook, RemoveOp(ops, o)),
                                   [o EXCEPT !.attempt = @ + 1], isOnline)
          IN hook' = st.hook /\ ops' = st.ops
  /\ UNCHANGED isOnline
  /\ Leaves

\* Requests of the kind in the bag.
Count(b, call) ==
  LET S == {o \in BagToSet(b) : o.kind = call}
      RECURSIVE Sum(_)
      Sum(T) == IF T = {} THEN 0
                ELSE LET o == CHOOSE x \in T : TRUE
                     IN CopiesIn(o, b) + Sum(T \ {o})
  IN Sum(S)

HookInit ==
  /\ EngineStart
  /\ store = {}
  /\ DbIdle
  /\ cache = [k \in Keys |-> Null]
  /\ pendingRequests = [k \in Keys |-> Null]
  /\ now = 0
  /\ isOnline \in BOOLEAN
  /\ requests = [c \in Calls |-> NoRequest]
  /\ hook = [NoHook EXCEPT !.networkState = isOnline]
  /\ ops = EmptyBag
  /\ snapshot \in Snapshots
  /\ render = NoRender
  /\ timing = NoTiming

HookNext ==
  \/ Mount
  \/ EffectRerun
  \/ Unmount
  \/ HookNetworkChange
  \/ PollTick
  \/ AutoRefreshTick
  \/ ClickRefresh
  \/ ClickSync
  \/ HookRespond
  \/ HookWake

HookSpec == HookInit /\ [][HookNext]_vars

\* ---------------------------------------------------- windows and scores
\* The virtualized lists and the score classifiers of the client.  Pixels
\* and indices are integers; a CVSS score is Some number of tenths (90 is
\* 9.0), Null where the record carries none.
ESTIMATED_ITEM_HEIGHT == 450
BUFFER_SIZE == 5
DEFAULT_CONTAINER_HEIGHT == 800
CARD_HEIGHT == 360
ITEMS_TO_RENDER_BUFFER == 6

ItemCounts == {0, 1, MaxItems \div 2, MaxItems}
ItemHeights == {HeightStep * k : k \in 1..MaxItemHeights}
ContainerHeights == {HeightStep * k : k \in 1..MaxHeights}
ScrollOffsets == {ScrollStep * k : k \in 0..MaxScrolls}
Scores == {Null} \cup {Some(n) : n \in 0..MaxScore}

Math_max(a, b) == IF a > b THEN a ELSE b
Math_min(a, b) == IF a < b THEN a ELSE b
\* Math.floor(a / b) and Math.ceil(a / b), for a >= 0 and b > 0
Math_floor(a, b) == a \div b
Math_ceil(a, b) == (a + b - 1) \div b

\* The window with its last index rounded down.
WindowRoundedDown(itemCount, itemHeight, containerHeight, overscan, scrollTop) ==
  [component |-> "useVirtualScroll", itemCount |-> itemCount,
   itemHeight |-> itemHeight, containerHeight |-> containerHeight,
   overscan |-> overscan, scrollTop |-> scrollTop,
   startIndex |-> Math_max(0, Math_floor(scrollTop, itemHeight) - overscan),
   endIndex |-> Math_min(itemCount - 1,
                         Math_floor(scrollTop + containerHeight, itemHeight)
                           + overscan)]

\* The window with its first index rounded up.
WindowFromNextItem(itemCount, itemHeight, containerHeight, overscan, scrollTop) ==
  [component |-> "useVirtualScroll", itemCount |-> itemCount,
   itemHeight |-> itemHeight, containerHeight |-> containerHeight,
   overscan |-> overscan, scrollTop |-> scrollTop,
   startIndex |-> Math_max(0, Math_ceil(scrollTop, itemHeight) - overscan),
   endIndex |-> Math_min(itemCount - 1,
                         Math_ceil(scrollTop + containerHeight, itemHeight)
                           + overscan)]

\* One render of a component that calls useVirtualScroll.
useVirtualScroll(itemCount, itemHeight, containerHeight, overscan, scrollTop) ==
  [component |-> "useVirtualScroll", itemCount |-> itemCount,
   itemHeight |-> itemHeight, containerHeight |-> containerHeight,
   overscan |-> overscan, scrollTop |-> scrollTop,
   startIndex |-> Math_max(0, Math_floor(scrollTop, itemHeight) - overscan),
   endIndex |-> Math_min(itemCount - 1,
                         Math_ceil(scrollTop + containerHeight, itemHeight)
                           + overscan)]

\* One render of the list layout over length records.
VirtualizedCVEItemList(length, containerHeight, scrollTop) ==
  [component |-> "VirtualizedCVEItemList", cves |-> length,
   containerHeight |-> containerHeight, scrollTop |-> scrollTop,
   startIndex |-> Math_max(0, Math_floor(scrollTop, ESTIMATED_ITEM_HEIGHT)
                                - BUFFER_SIZE),
   endIndex |-> Math_min(length - 1,
                         Math_ceil(scrollTop + containerHeight,
                                   ESTIMATED_ITEM_HEIGHT) + BUFFER_SIZE)]

\* The grid with the rows one record apart.
GridRowsOverlapping(length, gridColumns, containerHeight, scrollTop) ==
  LET itemsPerRow == gridColumns
      totalRows == Math_ceil(length, itemsPerRow)
      visibleRowCount == Math_ceil(containerHeight, CARD_HEIGHT)
      startRow == Math_floor(scrollTop, CARD_HEIGHT)
      endRow == Math_min(totalRows - 1,
                         startRow + visibleRowCount + ITEMS_TO_RENDER_BUFFER)
      visibleStartRow == Math_max(0, startRow - ITEMS_TO_RENDER_BUFFER)
      visibleEndRow == Math_min(totalRows - 1, endRow)
      \* cves[itemIndex]: the record, undefined past the end of the array
      cve(itemIndex) == IF itemIndex < length THEN Some(itemIndex) ELSE Null
      rowItems(row) == [col \in 0..(itemsPerRow - 1) |-> cve(row + col)]
  IN [component |-> "VirtualizedCVEList", cves |-> length,
      gridColumns |-> gridColumns, containerHeight |-> containerHeight,
      scrollTop |-> scrollTop, totalRows |-> totalRows,
      visibleStartRow |-> visibleStartRow,
      visibleEndRow |-> visibleEndRow,
      visibleItems |-> IF length = 0 THEN [row \in {} |-> rowItems(row)]
                       ELSE [row \in visibleStartRow..visibleEndRow
                               |-> rowItems(row)]]

\* One render of the grid layout over length records; a record is known
\* by its index in cves, so a cell is Some index (a CVECard of that
\* record) or Null (the empty gridItem).
VirtualizedCVEList(length, gridColumns, containerHeight, scrollTop) ==
  LET itemsPerRow == gridColumns
      totalRows == Math_ceil(length, itemsPerRow)
      visibleRowCount == Math_ceil(containerHeight, CARD_HEIGHT)
      startRow == Math_floor(scrollTop, CARD_HEIGHT)
      endRow == Math_min(totalRows - 1,
                         startRow + visibleRowCount + ITEMS_TO_RENDER_BUFFER)
      visibleStartRow == Math_max(0, startRow - ITEMS_TO_RENDER_BUFFER)
      visibleEndRow == Math_min(totalRows - 1, endRow)
      \* cves[itemIndex]: the record, undefined past the end of the array
      cve(itemIndex) == IF itemIndex < length THEN Some(itemIndex) ELSE Null
      rowItems(row) == [col \in 0..(itemsPerRow - 1) |-> cve(row * itemsPerRow + col)]
  IN [component |-> "VirtualizedCVEList", cves |-> length,
      gridColumns |-> gridColumns, containerHeight |-> containerHeight,
      scrollTop |-> scrollTop, totalRows |-> totalRows,
      visibleStartRow |-> visibleStartRow,
      visibleEndRow |-> visibleEndRow,
      visibleItems |-> IF length = 0 THEN [row \in {} |-> rowItems(row)]
                       ELSE [row \in visibleStartRow..visibleEndRow
                               |-> rowItems(row)]]

\* The classifier with 9.0 left in the lower class.
ScoreCategoryAbove(score) ==
  IF score # Null /\ score[1] > 90 THEN "Critical"
  ELSE IF score # Null /\ score[1] >= 70 THEN "High"
  ELSE IF score # Null /\ score[1] >= 40 THEN "Medium"
  ELSE IF score # Null /\ score[1] >= 1 THEN "Low"
  ELSE "None"

\* A comparison with undefined is false.
getScoreCategory(score) ==
  IF score # Null /\ score[1] >= 90 THEN "Critical"
  ELSE IF score # Null /\ score[1] >= 70 THEN "High"
  ELSE IF score # Null /\ score[1] >= 40 THEN "Medium"
  ELSE IF score # Null /\ score[1] >= 1 THEN "Low"
  ELSE "None"

\* The same function stands in CVECard.tsx and in CVEItem.tsx; display is
\* toFixed(1) of the score, which tenths already are.
formatCVSSScore(score) ==
  IF score # Null /\ score[1] >= 90 THEN [display |-> score, severity |-> "critical"]
  ELSE IF score # Null /\ score[1] >= 70 THEN [display |-> score, severity |-> "high"]
  ELSE IF score # Null /\ score[1] >= 40 THEN [display |-> score, severity |-> "medium"]
  ELSE IF score # Null /\ score[1] > 0 THEN [display |-> score, severity |-> "low"]
  ELSE [display |-> "N/A", severity |-> "unknown"]

\* useState keeps a state across the renders of one component and starts
\* from its initial value in another.
StateOf(component, initial) ==
  IF render.component = component
  THEN [scrollTop |-> render.scrollTop,
        containerHeight |-> render.containerHeight]
  ELSE initial

\* The render that follows a change of state r of the component on screen.
Rerender(r) ==
  CASE r.component = "useVirtualScroll" ->
         useVirtualScroll(r.itemCount, r.itemHeight, r.containerHeight,
                          r.overscan, r.scrollTop)
    [] r.component = "VirtualizedCVEItemList" ->
         VirtualizedCVEItemList(r.cves, r.containerHeight, r.scrollTop)
    [] r.component = "VirtualizedCVEList" ->
         VirtualizedCVEList(r.cves, r.gridColumns, r.containerHeight,
                            r.scrollTop)

Still == UNCHANGED <<engine, server, locals, store, dbVars, apiVars, hook,
                     ops, snapshot, timing>>

\* A component renders with useVirtualScroll over the props it passes.
RenderVirtualScroll ==
  /\ \E itemCount \in ItemCounts, itemHeight \in ItemHeights,
        containerHeight \in ContainerHeights, overscan \in 0..MaxOverscan :
       render' = useVirtualScroll(
                   itemCount, itemHeight, containerHeight, overscan,
                   StateOf("useVirtualScroll", [scrollTop |-> 0]).scrollTop)
  /\ Still

\* CVEDemo renders the list layout.
RenderItemList ==
  /\ \E length \in ItemCounts :
       LET st == StateOf("VirtualizedCVEItemList",
                         [scrollTop |-> 0,
                          containerHeight |-> DEFAULT_CONTAINER_HEIGHT])
       IN render' = VirtualizedCVEItemList(length, st.containerHeight,
                                           st.scrollTop)
  /\ Still

\* CVEDemo renders the grid layout.
RenderGrid ==
  /\ \E length \in ItemCounts, gridColumns \in 1..MaxColumns :
       LET st == StateOf("VirtualizedCVEList",
                         [scrollTop |-> 0, containerHeight |-> 800])
       IN render' = VirtualizedCVEList(length, gridColumns,
                                       st.containerHeight, st.scrollTop)
  /\ Still

\* The scroll container is there once there are records to show.
HasContainer ==
  \/ render.component = "useVirtualScroll"
  \/ /\ render.component \in {"VirtualizedCVEItemList", "VirtualizedCVEList"}
     /\ render.cves > 0

\* onScroll / handleScroll: the container was scrolled.
handleScroll ==
  /\ HasContainer
  /\ \E scrollTop \in ScrollOffsets :
       render' = Rerender([render EXCEPT !.scrollTop = scrollTop])
  /\ Still

\* updateContainerHeight: the effect after the mount, or a resize.
updateContainerHeight ==
  /\ HasContainer
  /\ render.component # "useVirtualScroll"
  /\ \E clientHeight \in ContainerHeights :
       render' = Rerender([render EXCEPT !.containerHeight = clientHeight])
  /\ Still

\* A card or a list item of a record renders its score.
RenderCard ==
  /\ \E score \in Scores :
       render' = [component |-> "CVECard", cvss_score |-> score,
                  cvssInfo |-> formatCVSSScore(score),
                  scoreCategory |-> getScoreCategory(score)]
  /\ Still

RenderInit ==
  /\ EngineStart
  /\ store = {}
  /\ DbIdle
  /\ ApiIdle
  /\ UiIdle

RenderNext ==
  \/ RenderVirtualScroll
  \/ RenderItemList
  \/ RenderGrid
  \/ handleScroll
  \/ updateContainerHeight
  \/ RenderCard

RenderSpec == RenderInit /\ [][RenderNext]_vars

\* ------------------------------------------- delays and remaining time
\* calculateRetryDelay of the client and calculateETA of the engine, in
\* whole milliseconds.  random stands for Math.random() * 1000.
RetryDelayCap == 10000

\* A delay without the cap.
RetryDelayUncapped(attempt, baseDelay, random) ==
  baseDelay * 2^attempt + random

calculateRetryDelay(attempt, baseDelay, random) ==
  Math_min(baseDelay * 2^attempt + random, RetryDelayCap)

\* A remaining time taken from the total instead of what is left of it.
ETAOfTotal(elapsed, current, totalResults) ==
  IF current = 0 \/ totalResults = 0 THEN {Null}
  ELSE {Some((2 * totalResults * elapsed + current) \div (2 * current))}

\* calculateETA after `Date.now() - startTime` gave elapsed: the values
\* Math.round(remaining / rate) can have.  The exact quotient is
\* remaining * elapsed / current; Math.round takes the nearest integer, and
\* where the quotient lies halfway between two integers the rounding of
\* the two floating-point divisions decides which of them it is.  With
\* elapsed = 0 the rate is Infinity and the result 0.
calculateETA(elapsed, current, totalResults) ==
  IF current = 0 \/ totalResults = 0 THEN {Null}
  ELSE LET remaining == totalResults - current
           twice == 2 * remaining * elapsed
       IN IF twice % (2 * current) = current
          THEN {Some((twice - current) \div (2 * current)),
                Some((twice + current) \div (2 * current))}
          ELSE {Some((twice + current) \div (2 * current))}

\* makeRequest: the delay before the next attempt of a call that retries.
RetryDelay ==
  /\ \E attempt \in 0..MaxAttempt,
        retryDelay \in {BaseStep * k : k \in 0..MaxBase},
        random \in {j \in {JitterStep * k : k \in 0..MaxJitter} : j < 1000} :
       timing' = [function |-> "calculateRetryDelay", attempt |-> attempt,
                  baseDelay |-> retryDelay, random |-> random,
                  delay |-> calculateRetryDelay(attempt, retryDelay, random)]
  /\ UNCHANGED <<engine, server, locals, store, dbVars, apiVars, hook, ops,
                 snapshot, render>>

\* The progress callback of performBackgroundSync: the remaining time of
\* the progress it publishes.
ProgressETA ==
  /\ \E elapsed \in 0..MaxElapsed, totalResults \in 0..MaxTotal :
       \E current \in 0..totalResults :
         \E eta \in calculateETA(elapsed, current, totalResults) :
           timing' = [function |-> "calculateETA", elapsed |-> elapsed,
                      current |-> current, total |-> totalResults,
                      estimatedTimeRemaining |-> eta]
  /\ UNCHANGED <<engine, server, locals, store, dbVars, apiVars, hook, ops,
                 snapshot, render>>

TimingInit ==
  /\ EngineStart
  /\ store = {}
  /\ DbIdle
  /\ ApiIdle
  /\ UiIdle

TimingNext ==
  \/ RetryDelay
  \/ ProgressETA

TimingSpec == TimingInit /\ [][TimingNext]_vars

\* ================================================================ claims

\* C1: single-flight.  In every reachable state at most one sync run is
\* active, whatever the interleaving of blocking triggers, background
\* triggers and the startup sync; the flag is set exactly while a run is
\* active.
C1_SingleFlight ==
  /\ Cardinality(ActiveRuns) <= 1
  /\ isRunning <=> ActiveRuns # {}

\* C1 witness: a run is active and a later trigger was turned away.
C1_Witness ==
  \E p \in Procs, q \in Reqs :
    /\ pc[p] \in ActivePcs
    /\ pc[q] = "rejected"
    /\ p < q

\* C2: a blocking sync requested while a run (blocking or background) is
\* active is answered with the conflict, 409, and starts nothing; requested
\* while no run is active, in particular after a run ended by success or by
\* failure, it is accepted and starts a run.
C2_ConflictThenAccept ==
  [][\A p \in Reqs :
       (pc[p] = "idle" /\ kind'[p] = "blocking") =>
         IF ActiveRuns # {}
         THEN pc'[p] = "rejected" /\ resp'[p] = 409
         ELSE pc'[p] = "health" /\ isRunning' /\ resp'[p] = 0]_vars

\* C2 witness: one blocking call got 409, a run has ended by failure, and a
\* blocking call made after that is running.
C2_Witness ==
  \E p \in Procs, q \in Reqs, r \in Reqs :
    /\ pc[p] = "failed"
    /\ kind[q] = "blocking" /\ resp[q] = 409
    /\ kind[r] = "blocking" /\ pc[r] \in ActivePcs

\* C3: every run that set the running flag eventually settles, and once no
\* run is active the flag is clear and a background trigger would pass the
\* guard of startBackgroundSync again.
C3_FlagReleased ==
  /\ \A p \in Procs : (pc[p] \in ActivePcs) ~> (pc[p] \in SettledPcs)
  /\ [](ActiveRuns = {} => ~isRunning /\ ~BackgroundGuard)

\* C3 witness: a run ended by an exception and a background trigger made
\* after it was accepted.
C3_Witness ==
  \E p \in Procs, q \in Reqs :
    /\ pc[p] = "failed"
    /\ kind[q] = "background" /\ pc[q] \in ActivePcs

\* C4: a POST /api/cves/sync that started no run because one was active is
\* answered 409, with background=false and with background=true; it is
\* never answered 202.
C4_RejectedIs409 ==
  \A p \in Reqs : pc[p] = "rejected" => resp[p] = 409

\* The recorded last result as getSyncStatus shows it is that of an aborted
\* run: success=false, fetched=0, stored=0, one synthetic errors entry.
AbortedResult(status) ==
  /\ status.lastSync # Null
  /\ ~status.lastSync[1].success
  /\ status.lastSync[1].fetched = 0
  /\ status.lastSync[1].stored = 0
  /\ Len(status.lastSync[1].errors) = 1
  /\ status.lastSync[1].errors[1] \in {SYNC_ERROR, BACKGROUND_SYNC_ERROR}

\* C5: when the fetch step of a run fails the run ends there, the last
\* result it records is that of an aborted run, and a blocking caller is
\* answered with an error status; a recorded failure keeps that shape for
\* as long as it is the last result.
C5_FetchErrorAborts ==
  /\ [][\A p \in Procs :
          (pc[p] = "fetch" /\ pc'[p] = "failed") =>
            /\ AbortedResult(getSyncStatus')
            /\ IsBlocking(p) => resp'[p] \in {408, 500, 502, 503}]_vars
  /\ [](lastSyncResult # Null /\ ~lastSyncResult[1].success
          => AbortedResult(getSyncStatus))

\* C5 witness: a background run failed on a later page, after the callback
\* had started storing an earlier one, and a store of it has failed since.
C5_Witness ==
  \E p \in Procs :
    /\ IsBackground(p) /\ pc[p] = "failed"
    /\ cves[p] # <<>> /\ errors[p] # <<>>
    /\ AbortedResult(getSyncStatus)

\* C6: a blocking sync whose fetch succeeded ends with success=true and
\* answer 200 for every pattern of failing stores; no failing store ends
\* the loop, and the records handed to insertCVE are the fetched records,
\* each once, in fetch order.
C6_StoreFailuresTolerated ==
  [][\A p \in Procs :
       /\ (IsBlocking(p) /\ pc[p] = "store") =>
            /\ pc'[p] \in {"store", "done"}
            /\ \/ insertLog'[p] = insertLog[p] /\ pc'[p] = "store"
               \/ insertLog'[p] = SubSeq(cves[p], 1, Len(insertLog[p]) + 1)
            /\ pc'[p] = "done" =>
                 /\ insertLog'[p] = cves[p]
                 /\ getSyncStatus'.lastSync[1].success
                 /\ getSyncStatus'.lastSync[1].fetched = Len(cves[p])
                 /\ resp'[p] = 200
       /\ (IsBlocking(p) /\ pc[p] = "fetch" /\ pc'[p] = "done") =>
            getSyncStatus'.lastSync[1].success]_vars

\* C6 witness: a blocking sync fetched two records or more, every store
\* failed, and it was answered 200.
C6_Witness ==
  \E p \in Reqs :
    /\ IsBlocking(p) /\ pc[p] = "done" /\ resp[p] = 200
    /\ Len(cves[p]) >= 2
    /\ storedCount[p] = 0
    /\ Len(errors[p]) = Len(cves[p])

\* C7: when a background run has ended by success (phase 'complete', result
\* recorded, flag released) no chunk-store task it started is outstanding.
C7_CompleteAfterStores ==
  \A p \in Procs :
    (IsBackground(p) /\ pc[p] = "done") => ~\E t \in tasks : t.run = p

\* C8: the last result getSyncStatus returns changes only in a step in
\* which a run ends and records its result.
C8_LastResultImmutable ==
  [][getSyncStatus'.lastSync # getSyncStatus.lastSync =>
       \E p \in Procs : pc[p] \in ActivePcs /\ pc'[p] \in SettledPcs]_vars

\* C9: a status request is answered in the step that receives it, with the
\* status of that moment, and leaves the running flag, the last result, the
\* progress, the store and every run and store task as they were.
C9_StatusIsPureRead ==
  [][\A p \in Reqs :
       (pc[p] = "idle" /\ kind'[p] = "status") =>
         /\ pc'[p] = "answered"
         /\ statusBody' = Some(getSyncStatus)
         /\ getSyncStatus' = getSyncStatus
         /\ UNCHANGED <<engine, store, locals, tasks>>
         /\ \A q \in Procs \ {p} : pc'[q] = pc[q]]_vars

\* C9 witness: a status request was answered while a background run was
\* fetching and an earlier run's result was on record.
C9_Witness ==
  /\ statusBody # Null
  /\ statusBody[1].isRunning
  /\ statusBody[1].lastSync # Null
  /\ statusBody[1].progress # Null
  /\ statusBody[1].progress[1].phase = "fetching"

\* The step in which startServer is done with the startup sync.
StartupEnds == ~listening /\ listening'

\* C10 as claimed: when the startup sync is over, exactly one run has been
\* started if the store was empty, and none, with the engine state
\* unchanged, if it was not.
C10_StartupSyncAsClaimed ==
  [][StartupEnds =>
       IF store = {}
       THEN ActiveRuns' = {Startup} /\ isRunning'
       ELSE ActiveRuns' = {} /\ UNCHANGED engine]_vars

\* C10 as amended: if checkDatabaseEmpty answered, exactly one run has been
\* started when the store was empty, and none, with the engine state
\* unchanged, when it was not; if it threw (failed health check or count
\* query) no run has been started and the engine state is unchanged.
C10_StartupSync ==
  [][StartupEnds =>
       IF performedBackgroundSync' # "throw" /\ store = {}
       THEN /\ performedBackgroundSync' = "true"
            /\ ActiveRuns' = {Startup} /\ isRunning'
            /\ backgroundSyncProcess' = Some(Startup)
       ELSE /\ performedBackgroundSync' \in {"false", "throw"}
            /\ performedBackgroundSync' = "false" => store # {}
            /\ ActiveRuns' = {} /\ UNCHANGED engine]_vars

\* C10 witness: the store was empty, the startup sync started its run, and
\* the server is listening while that run is fetching.
C10_Witness ==
  /\ performedBackgroundSync = "true"
  /\ listening
  /\ pc[Startup] = "fetch"
  /\ \A p \in Reqs : pc[p] = "idle"

\* C11: the server listens as soon as the startup check has returned or
\* thrown, before the run it may have started has fetched or stored
\* anything; a GET /api/cves is answered in the step that receives it, 200
\* with the table of that moment (500 only when the query itself fails),
\* whether or not a sync is running, and a 200 answer is possible in every
\* state in which the server accepts a request.
C11_ReadsNeverBlocked ==
  /\ [](pc[Startup] \notin {"boot", "stats", "stats2"} => listening)
  /\ [][StartupEnds =>
          /\ pc'[Startup] \in {"health", "norun"}
          /\ cves'[Startup] = <<>>
          /\ insertLog'[Startup] = <<>>]_vars
  /\ [][\A p \in Reqs :
          (pc[p] = "idle" /\ kind'[p] = "read") =>
            /\ pc'[p] = "answered"
            /\ resp'[p] \in {200, 500}
            /\ resp'[p] = 200 => cvesBody' = Some(store)
            /\ UNCHANGED <<engine, store, locals, tasks>>]_vars
  /\ [](\A p \in Reqs :
          Arrives(p) => ENABLED (GetCVEs(p) /\ resp'[p] = 200))

\* C11 witness: while the startup run is still fetching, a read was
\* answered 200 with a table that holds some of the feed's records, not all.
C11_Witness ==
  /\ pc[Startup] = "fetch"
  /\ \E p \in Reqs : kind[p] = "read" /\ resp[p] = 200
  /\ cvesBody # Null
  /\ cvesBody[1] # {}
  /\ Cardinality(cvesBody[1]) < total[Startup]

\* C12: in every state of the store the table holds exactly one row for
\* each cve_id that has been upserted and none for any other, the row
\* carries the payload of the latest successful upsert of its cve_id, and
\* the count getDBStats reports is the number of distinct cve_id upserted
\* (so an upsert of a stored cve_id with changed data leaves it unchanged).
C12_OneRowPerId ==
  /\ \A c \in CveIds :
       Cardinality({r \in table : r.cve_id = c})
         = IF c \in Upserted THEN 1 ELSE 0
  /\ \A r \in table : Latest(upserts, r.cve_id) = Some(r.data)
  /\ store = {r.cve_id : r \in table}
  /\ Cardinality(table) = Cardinality(Upserted)
  /\ getDBStats.total = Cardinality(Upserted)

\* C12 witness: two cve_id are stored and one of them has been upserted
\* again with changed data.
C12_Witness ==
  /\ Cardinality(table) = MaxIds
  /\ \E i, j \in 1..Len(upserts) :
       /\ i < j
       /\ upserts[i].cve_id = upserts[j].cve_id
       /\ upserts[i].data # upserts[j].data
       /\ \E r \in table :
            r.cve_id = upserts[j].cve_id /\ r.data = upserts[j].data

\* C13: a cve_id that is stored before and after a step has the same
\* surrogate id before and after it.
C13_IdStable ==
  [][\A r \in table : \A q \in table' :
       q.cve_id = r.cve_id => q.id = r.id]_vars

\* C14: the result of insertCVEsBatch satisfies inserted + number of
\* errors = number of records given, for every pattern of failures.
C14_BatchTally ==
  batch.pc = "resolved" =>
    batch.result[1].inserted + Len(batch.result[1].errors) = Len(batch.cves)

C16_Deduplication ==
  [][\A c, d \in Calls :
       (/\ InFlight = {c}
        /\ requests[c].key = Some(CvesKey)
        /\ requests[c].config.enableCache
        /\ requests[c].config.deduplication
        /\ cache[CvesKey] = Null
        /\ Made(d)
        /\ requests'[d].key = Some(CvesKey)
        /\ requests'[d].config.enableCache
        /\ requests'[d].config.deduplication) =>
          /\ requests'[d].pc = "joined"
          /\ requests'[d].joinedTo = c
          /\ requests'[d].invoked = 0]_vars

\* C17: the call registered as pending for a key has not settled.
C17_MarkerCleared ==
  \A k \in Keys :
    pendingRequests[k] # Null => pendingRequests[k][1] \in InFlight

\* C18: a call sleeps before a retry only after a failure without status or
\* with a 5xx status; the fetch function is invoked only in the step that
\* makes a call or at the end of such a sleep; a failure that is not
\* retried rejects the promise with its status in the step that receives
\* it, and a rejected call does nothing more.
C18_RetryOnlyRetryable ==
  /\ [](\A c \in Calls :
          requests[c].pc = "backoff" =>
            /\ requests[c].lastError # Null
            /\ requests[c].lastError[1] = 0 \/ requests[c].lastError[1] >= 500)
  /\ [][\A c \in Calls :
          /\ requests'[c].pc = "fetching" /\ requests'[c] # requests[c] =>
               /\ requests[c].pc \in {"idle", "backoff"}
               /\ requests'[c].invoked = requests[c].invoked + 1
          /\ requests[c].pc = "fetching" /\ requests'[c] # requests[c] =>
               \/ requests'[c].pc = "resolved"
               \/ requests'[c].pc = "backoff"
               \/ /\ requests'[c].pc = "rejected"
                  /\ requests'[c].settled[1].value \in FailureStatuses
          /\ requests[c].pc = "rejected" => requests'[c] = requests[c]]_vars

\* C18 witness: one call was rejected with the 4xx status while another
\* sleeps before its retry after a 5xx.
C18_Witness ==
  \E c, d \in Calls :
    /\ requests[c].pc = "rejected"
    /\ requests[c].settled = Some([ok |-> FALSE, value |-> 404])
    /\ requests[d].pc = "backoff"
    /\ requests[d].lastError = Some(500)

\* C19 as claimed: a call that went to executeRequest has invoked the fetch
\* function at most retryAttempts + 1 times, and exactly once if
\* enableRetry is false.
C19_RetriesBoundedAsClaimed ==
  \A c \in Calls :
    (requests[c].pc \in {"fetching", "backoff", "rejected"}
       /\ requests[c].config # Null) =>
      /\ requests[c].invoked <= requests[c].config.retryAttempts + 1
      /\ ~requests[c].config.enableRetry => requests[c].invoked = 1

\* C19 as amended: a call invokes the fetch function once per attempt it
\* makes while online and not at all in an attempt made offline, attempts
\* are numbered from 0 to retryAttempts at most, and there is one attempt
\* only if enableRetry is false; a sleep is followed by the next attempt
\* or, offline on the last one, by the rejection; a failure of the last
\* attempt rejects the promise with that failure.
C19_RetriesBounded ==
  /\ [](\A c \in InFlight :
          /\ requests[c].attempt <= requests[c].config.retryAttempts
          /\ requests[c].invoked <= requests[c].attempt + 1
          /\ requests[c].pc = "fetching" => requests[c].invoked >= 1
          /\ ~requests[c].config.enableRetry => requests[c].attempt = 0)
  /\ [][\A c \in Calls :
          /\ (Made(c) /\ requests'[c].pc \notin {"cached", "joined"}) =>
               /\ requests'[c].invoked = IF isOnline THEN 1 ELSE 0
               /\ requests'[c].pc = "rejected" =>
                    /\ ~isOnline /\ ~requests'[c].config.enableRetry
                    /\ requests'[c].settled = Some([ok |-> FALSE, value |-> 0])
          /\ (requests[c].pc = "backoff" /\ requests'[c] # requests[c]) =>
               \/ /\ requests'[c].pc \in {"fetching", "backoff"}
                  /\ requests'[c].attempt = requests[c].attempt + 1
               \/ /\ requests'[c].pc = "rejected"
                  /\ requests[c].attempt + 1 = requests[c].config.retryAttempts
                  /\ requests'[c].settled = Some([ok |-> FALSE, value |-> 0])
          /\ (/\ requests[c].pc = "fetching"
              /\ requests'[c] # requests[c]
              /\ \/ requests[c].attempt = requests[c].config.retryAttempts
                 \/ ~requests[c].config.enableRetry) =>
               \/ requests'[c].pc = "resolved"
               \/ /\ requests'[c].pc = "rejected"
                  /\ ~requests'[c].settled[1].ok]_vars

\* C19 witness: a call is on its last attempt, the fetch function invoked
\* retryAttempts + 1 times, while a call made offline without retry stands
\* rejected with no invocation.
C19_Witness ==
  \E c, d \in Calls :
    /\ requests[c].pc = "fetching"
    /\ requests[c].attempt = requests[c].config.retryAttempts
    /\ requests[c].invoked = requests[c].config.retryAttempts + 1
    /\ requests[d].pc = "rejected"
    /\ requests[d].config # Null
    /\ requests[d].invoked = 0

\* C20: syncCVEs leaves no cached entry for '/api/cves', and the next call
\* made after it, if it is getAllCVEs and the client is online, invokes the
\* fetch function itself.
C20_ForcedLive ==
  [][\A c \in Calls :
       /\ (Made(c) /\ requests'[c].kind = "syncCVEs") =>
            cache'[CvesKey] = Null
       /\ (/\ Made(c)
           /\ requests'[c].kind = "getAllCVEs"
           /\ isOnline
           /\ c > 1
           /\ requests[IF c > 1 THEN c - 1 ELSE c].kind = "syncCVEs") =>
            /\ requests'[c].pc = "fetching"
            /\ requests'[c].invoked = 1]_vars

\* C21: when the error of the hook is 'No internet connection', the render
\* with that error is committed, no records request is in flight and the
\* network goes from offline to online, that step starts exactly one
\* records request, and the request is sent.
C21_OneRefetchOnReconnect ==
  [][(/\ hook.phase = "mounted"
      /\ ~isOnline /\ isOnline'
      /\ hook.error = Some(NoInternet.message)
      /\ hook.effectError = hook.error
      /\ Count(ops, "getAllCVEs") = 0) =>
        /\ Count(ops', "getAllCVEs") = 1
        /\ \E o \in BagToSet(ops') :
             o.kind = "getAllCVEs" /\ o.pc = "fetching"]_vars

\* C22: once the polling interval is cleared, no status request of the
\* loop is started, and the answer to a status request of the loop that
\* was still in flight starts no records request.
C22_PollingStops ==
  [][hook.pollingIntervalRef = Null =>
       /\ \A o \in BagToSet(ops') :
            o.by = "poll" => CopiesIn(o, ops') <= CopiesIn(o, ops)
       /\ (\E o \in BagToSet(ops) :
             o.by = "poll" /\ CopiesIn(o, ops') < CopiesIn(o, ops)) =>
            Count(ops', "getAllCVEs") <= Count(ops, "getAllCVEs")]_vars

\* C23: while the hook of part_002 is mounted its auto-refresh interval is
\* set and the callback of the interval gets past the mounted check.
C23_RefreshKeepsRunning ==
  (hook.phase = "mounted" /\ snapshot = "part_002") =>
    (hook.autoRefreshIntervalRef # Null /\ hook.mounted)

\* C24: the step in which a silent records request settles, or goes to
\* sleep before a retry, leaves loading and error as they were.
C24_SilentRefetch ==
  [][\A o \in BagToSet(ops) :
       (/\ o.kind = "getAllCVEs"
        /\ o.silent
        /\ CopiesIn(o, ops') < CopiesIn(o, ops)) =>
         /\ hook'.loading = hook.loading
         /\ hook'.error = hook.error]_vars

\* C25: the blocking error view is rendered only while no fetch has stored
\* its data.
C25_BlockingOnlyBeforeData ==
  View = "error" => ~hook.everLoaded

\* C26: in the list layout the rendered window is
\* startIndex = max(0, floor(scrollOffset / itemExtent) - overscan) and
\* endIndex = min(itemCount - 1, ceil((scrollOffset + containerExtent) /
\* itemExtent) + overscan), for every item count, extent, offset and
\* overscan; extent 100, container 500, overscan 2, 50 items and offset 300
\* give [1, 10].
C26_ListWindow ==
  render.component \in {"useVirtualScroll", "VirtualizedCVEItemList"} =>
    LET hooked == render.component = "useVirtualScroll"
        itemCount == IF hooked THEN render.itemCount ELSE render.cves
        itemExtent == IF hooked THEN render.itemHeight
                      ELSE ESTIMATED_ITEM_HEIGHT
        overscan == IF hooked THEN render.overscan ELSE BUFFER_SIZE
        below == render.scrollTop + render.containerHeight
        floor == CHOOSE k \in 0..render.scrollTop :
                   k * itemExtent <= render.scrollTop
                   /\ render.scrollTop < (k + 1) * itemExtent
        ceil == CHOOSE k \in 0..below :
                  (k - 1) * itemExtent < below /\ below <= k * itemExtent
        first == IF floor - overscan > 0 THEN floor - overscan ELSE 0
        last == IF itemCount - 1 < ceil + overscan THEN itemCount - 1
                ELSE ceil + overscan
    IN /\ render.startIndex = first
       /\ render.endIndex = last
       /\ (itemExtent = 100 /\ render.containerHeight = 500 /\ overscan = 2
           /\ itemCount = 50 /\ render.scrollTop = 300)
            => render.startIndex = 1 /\ render.endIndex = 10

C26_Witness ==
  /\ render.component = "useVirtualScroll"
  /\ render.itemHeight = 100 /\ render.containerHeight = 500
  /\ render.overscan = 2 /\ render.itemCount = 50 /\ render.scrollTop = 300
  /\ render.startIndex = 1 /\ render.endIndex = 10

\* C27: in the grid layout the rendered rows follow the same formula on row
\* indices: first row = max(0, floor(scrollOffset / rowExtent) - overscan),
\* last row = min(rowCount - 1, ceil((scrollOffset + containerExtent) /
\* rowExtent) + overscan), with rowCount = ceil(itemCount / itemsPerRow).
C27_GridWindow ==
  render.component = "VirtualizedCVEList" =>
    LET below == render.scrollTop + render.containerHeight
        rowCount == CHOOSE k \in 0..render.cves :
                      (k - 1) * render.gridColumns < render.cves
                      /\ render.cves <= k * render.gridColumns
        floor == CHOOSE k \in 0..render.scrollTop :
                   k * CARD_HEIGHT <= render.scrollTop
                   /\ render.scrollTop < (k + 1) * CARD_HEIGHT
        ceil == CHOOSE k \in 0..below :
                  (k - 1) * CARD_HEIGHT < below /\ below <= k * CARD_HEIGHT
        first == IF floor - ITEMS_TO_RENDER_BUFFER > 0
                 THEN floor - ITEMS_TO_RENDER_BUFFER ELSE 0
        last == IF rowCount - 1 < ceil + ITEMS_TO_RENDER_BUFFER
                THEN rowCount - 1 ELSE ceil + ITEMS_TO_RENDER_BUFFER
    IN /\ render.totalRows = rowCount
       /\ render.visibleStartRow = first
       /\ render.visibleEndRow = last

\* C28: a score of 9.0 or more is CRITICAL, of 7.0 or more HIGH, of 4.0 or
\* more MEDIUM, above 0 LOW, and 0 or no score is UNKNOWN / NONE; both
\* classifiers of the client agree with these thresholds on every score
\* from 0.0 to 10.0 in steps of 0.1.
C28_Thresholds ==
  render.component = "CVECard" =>
    LET score == render.cvss_score
        class == IF score = Null THEN "UNKNOWN"
                 ELSE IF score[1] >= 90 THEN "CRITICAL"
                 ELSE IF score[1] >= 70 THEN "HIGH"
                 ELSE IF score[1] >= 40 THEN "MEDIUM"
                 ELSE IF score[1] > 0 THEN "LOW"
                 ELSE "UNKNOWN"
        Label(s) == CASE s \in {"Critical", "critical"} -> "CRITICAL"
                      [] s \in {"High", "high"} -> "HIGH"
                      [] s \in {"Medium", "medium"} -> "MEDIUM"
                      [] s \in {"Low", "low"} -> "LOW"
                      [] s \in {"None", "unknown"} -> "UNKNOWN"
    IN /\ Label(render.scoreCategory) = class
       /\ Label(render.cvssInfo.severity) = class
       /\ score \in {Some(95), Some(90)} => class = "CRITICAL"
       /\ score = Some(70) => class = "HIGH"
       /\ score = Some(40) => class = "MEDIUM"
       /\ score = Some(1) => class = "LOW"

C28_Witness ==
  /\ render.component = "CVECard"
  /\ render.cvss_score = Some(90)
  /\ render.scoreCategory = "Critical"
  /\ render.cvssInfo.severity = "critical"

\* C29: when the request for page k > 1 of a chunked traversal fails, the
\* traversal fails as a whole and hands no records on, the progress callback
\* was called exactly once for each of the pages 1..k-1, in page order,
\* before the failure surfaces, and the run ends as failed.
C29_PageFailure ==
  [][\A p \in Procs :
       /\ progressLog'[p] # progressLog[p] =>
            /\ progressLog'[p] =
                 Append(progressLog[p], Len(progressLog[p]) + 1)
            /\ pc[p] = "fetch" /\ pc'[p] \in {"fetch", "fetched"}
            /\ currentProgress' # Null
            /\ currentProgress'[1].current = Len(cves'[p])
            /\ currentProgress'[1].phase = "fetching"
       /\ (IsBackground(p) /\ pc[p] = "fetch" /\ pc'[p] = "failed"
           /\ progressLog[p] # <<>>) =>
            /\ progressLog'[p] = progressLog[p]
            /\ progressLog[p] = [i \in 1..(Len(cves[p]) \div ChunkSize) |-> i]
            /\ lastSyncResult' # Null
            /\ ~lastSyncResult'[1].success
            /\ lastSyncResult'[1].fetched = 0
            /\ lastSyncResult'[1].stored = 0
            /\ ResultErrors(lastSyncResult'[1]) = <<BACKGROUND_SYNC_ERROR>>
            /\ currentProgress' = Null
            /\ ~isRunning'
            /\ backgroundSyncProcess' = Null]_vars

C29_Witness ==
  \E p \in Procs :
    /\ IsBackground(p)
    /\ pc[p] = "failed"
    /\ progressLog[p] = <<1>>
    /\ lastSyncResult = Some(BackgroundFailureResult(p))

\* C30: the result a blocking sync records with success = true has
\* fetched = stored + the number of its errors, every entry of errors names
\* a record of the run whose store failed, and stored counts the records the
\* run wrote.
C30_Tally ==
  /\ [](lastSyncResult # Null =>
          LET r == lastSyncResult[1]
              v == ResultView(r)
          IN (r.success /\ (r.alias = Null \/ IsBlocking(r.alias[1]))) =>
               /\ v.fetched = v.stored + Len(v.errors)
               /\ r.alias # Null =>
                    LET p == r.alias[1]
                    IN /\ pc[p] = "done"
                       /\ v.fetched = Len(cves[p])
                       /\ Len(insertLog[p]) = Len(cves[p])
                       /\ \A i \in 1..Len(v.errors) :
                            \E j \in 1..Len(cves[p]) : v.errors[i] = cves[p][j])
  /\ [][\A p \in Procs :
          IsBlocking(p) =>
            /\ storedCount'[p] # storedCount[p] =>
                 /\ storedCount'[p] = storedCount[p] + 1
                 /\ insertLog'[p] =
                      Append(insertLog[p], cves[p][Len(insertLog[p]) + 1])
                 /\ cves[p][Len(insertLog[p]) + 1] \in store'
                 /\ errors'[p] = errors[p]
            /\ errors'[p] # errors[p] =>
                 /\ errors'[p] =
                      Append(errors[p], cves[p][Len(insertLog[p]) + 1])
                 /\ insertLog'[p] =
                      Append(insertLog[p], cves[p][Len(insertLog[p]) + 1])
                 /\ store' = store
                 /\ storedCount'[p] = storedCount[p]
            /\ insertLog'[p] # insertLog[p] =>
                 storedCount'[p] # storedCount[p] \/ errors'[p] # errors[p]]_vars

C30_Witness ==
  \E p \in Procs :
    /\ IsBlocking(p)
    /\ pc[p] = "done"
    /\ lastSyncResult # Null
    /\ lastSyncResult[1].alias = Some(p)
    /\ lastSyncResult[1].success
    /\ lastSyncResult[1].stored = 1
    /\ Len(ResultErrors(lastSyncResult[1])) = 1

\* C31: the result a finished background run has recorded carries as stored
\* the number of records the run upserted, and for a successful run
\* stored + the number of errors = fetched.  (Read once the run's store
\* tasks have all settled, so that the number upserted is final.)
C31_BackgroundTally ==
  \A p \in Procs :
    (IsBackground(p) /\ lastSyncResult # Null
       /\ ~(\E t \in tasks : t.run = p)) =>
      LET v == ResultView(lastSyncResult[1])
      IN /\ (pc[p] = "done" /\ lastSyncResult[1].alias = Some(p)) =>
              /\ v.stored = storedCount[p]
              /\ v.stored + Len(v.errors) = v.fetched
         /\ (pc[p] = "failed"
             /\ \A q \in Procs \ {p} : pc[q] \notin ActivePcs \cup SettledPcs) =>
              v.stored = storedCount[p]

\* C32: a trigger the single-flight guard rejects changes nothing: the
\* blocking call answered with the conflict and the background trigger made
\* while a run is active leave the running flag set, the last result, the
\* progress and the promise of the active run as they were, and start no
\* fetch and no store.
C32_RejectedChangesNothing ==
  [][\A p \in Procs :
       (pc[p] # "rejected" /\ pc'[p] = "rejected") =>
         /\ isRunning /\ isRunning'
         /\ lastSyncResult' = lastSyncResult
         /\ currentProgress' = currentProgress
         /\ backgroundSyncProcess' = backgroundSyncProcess
         /\ UNCHANGED <<store, locals, tasks>>
         /\ \A q \in Procs \ {p} : pc'[q] = pc[q]]_vars

C32_Witness ==
  \E p, q \in Reqs :
    /\ kind[p] = "background" /\ pc[p] = "rejected"
    /\ kind[q] = "blocking" /\ pc[q] = "rejected"
    /\ isRunning
    /\ currentProgress # Null

\* C33: whenever getSyncStatus reports isRunning = true together with a
\* progress, the progress is that of the active run (a background run that
\* is fetching, with the number of records it has fetched) and its phase is
\* 'fetching' or 'storing', never 'complete'.
C33_ProgressOfActiveRun ==
  (getSyncStatus.isRunning /\ getSyncStatus.progress # Null) =>
    /\ getSyncStatus.progress[1].phase \in {"fetching", "storing"}
    /\ \E p \in Procs :
         /\ IsBackground(p)
         /\ pc[p] \in {"fetch", "fetched"}
         /\ getSyncStatus.progress[1].current = Len(cves[p])

\* C34: a polling loop that has been started keeps polling while the
\* server's run is active: when a poll's status request is answered with
\* the status of an active run (isRunning = true), polling is not stopped.
C34_PollingWhileActive ==
  [][(/\ hook.mounted
      /\ hook.pollingIntervalRef # Null
      /\ Count(ops', "getSyncStatus") < Count(ops, "getSyncStatus")
      /\ hook'.syncStatus = Some([isRunning |-> TRUE]))
       => hook'.pollingIntervalRef # Null]_vars

\* C35: in a background run fetching and storing overlap.  The request for
\* the next page needs nothing from the stores started for the earlier
\* pages: it can settle whatever store task is outstanding; and a store
\* step of the run, failed or not, leaves the traversal (its position, the
\* records fetched, the pages reported), the running flag and the recorded
\* result as they were.
C35_FetchAndStoreOverlap ==
  /\ [](\A p \in Procs :
          (IsBackground(p) /\ pc[p] = "fetch") => ENABLED FetchChunk(p))
  /\ [][\A p \in Procs :
          (IsBackground(p) /\ insertLog'[p] # insertLog[p]) =>
            /\ pc'[p] = pc[p]
            /\ cves'[p] = cves[p]
            /\ progressLog'[p] = progressLog[p]
            /\ UNCHANGED <<isRunning, lastSyncResult, currentProgress,
                           backgroundSyncProcess>>]_vars

\* C35 witness: the request for page 2 is in flight while the record of
\* page 1 is still being stored.
C35_Witness ==
  \E p \in Procs, t \in tasks :
    /\ IsBackground(p) /\ pc[p] = "fetch"
    /\ progressLog[p] = <<1>>
    /\ t.run = p /\ t.page = 1 /\ t.pos < Len(t.recs)

\* C36: the delay before attempt k + 1 is min(base * 2^k + jitter, 10000) ms
\* with 0 <= jitter < 1000: it never exceeds 10000 ms, is at least
\* min(base * 2^k, 10000), and with the jitter fixed does not decrease
\* when k grows.
C36_RetryDelay ==
  timing.function = "calculateRetryDelay" =>
    LET k == timing.attempt
        base == timing.baseDelay
        jitter == timing.random
        RECURSIVE Doubled(_, _)
        Doubled(x, n) == IF n = 0 THEN x ELSE Doubled(x + x, n - 1)
        Least(a, b) == IF a <= b THEN a ELSE b
    IN /\ 0 <= jitter /\ jitter < 1000
       /\ timing.delay = Least(Doubled(base, k) + jitter, 10000)
       /\ timing.delay <= 10000
       /\ timing.delay >= Least(Doubled(base, k), 10000)
       /\ timing.delay <= calculateRetryDelay(k + 1, base, jitter)

C36_Witness ==
  /\ timing.function = "calculateRetryDelay"
  /\ timing.attempt >= 4 /\ timing.baseDelay >= 1000
  /\ timing.delay = 10000

\* C39: the remaining time is undefined when current is 0; otherwise it is
\* (elapsed / current) * (total - current) rounded to an integer, which is
\* never negative while current <= total and is 0 when current = total.
C39_EstimatedTimeRemaining ==
  timing.function = "calculateETA" =>
    LET eta == timing.estimatedTimeRemaining
        elapsed == timing.elapsed
        current == timing.current
        left == timing.total - timing.current
        Dist(a, b) == IF a >= b THEN a - b ELSE b - a
    IN /\ current = 0 => eta = Null
       /\ current # 0 =>
            /\ eta # Null
            \* eta[1] is an integer nearest to elapsed * left / current
            /\ 2 * Dist(eta[1] * current, elapsed * left) <= current
            /\ timing.current <= timing.total => eta[1] >= 0
            /\ timing.current = timing.total => eta[1] = 0

C39_Witness ==
  /\ timing.function = "calculateETA"
  /\ timing.current = 3 /\ timing.total = 5 /\ timing.elapsed = 4
  /\ timing.estimatedTimeRemaining = Some(3)

\* C37: in both layouts the rendered window is a bounded superset of the
\* viewport: every item or row whose extent meets
\* [scrollOffset, scrollOffset + containerExtent) is in the rendered range,
\* the range stays within [0, count - 1], and at most
\* ceil(containerExtent / itemExtent) + 2 * overscan + 2 items or rows are
\* rendered, whatever the total count.
C37_BoundedSuperset ==
  render.component \in {"useVirtualScroll", "VirtualizedCVEItemList",
                        "VirtualizedCVEList"} =>
    LET hooked == render.component = "useVirtualScroll"
        grid == render.component = "VirtualizedCVEList"
        count == IF hooked THEN render.itemCount
                 ELSE IF grid
                 THEN CHOOSE k \in 0..render.cves :
                        (k - 1) * render.gridColumns < render.cves
                        /\ render.cves <= k * render.gridColumns
                 ELSE render.cves
        extent == IF hooked THEN render.itemHeight
                  ELSE IF grid THEN CARD_HEIGHT ELSE ESTIMATED_ITEM_HEIGHT
        overscan == IF hooked THEN render.overscan
                    ELSE IF grid THEN ITEMS_TO_RENDER_BUFFER ELSE BUFFER_SIZE
        first == IF grid THEN render.visibleStartRow ELSE render.startIndex
        last == IF grid THEN render.visibleEndRow ELSE render.endIndex
        top == render.scrollTop
        bottom == render.scrollTop + render.containerHeight
        fits == CHOOSE k \in 0..render.containerHeight :
                  (k - 1) * extent < render.containerHeight
                  /\ render.containerHeight <= k * extent
        rendered == IF last >= first THEN last - first + 1 ELSE 0
    IN /\ \A i \in 0..(count - 1) :
            (i * extent < bottom /\ (i + 1) * extent > top)
              => first <= i /\ i <= last
       /\ first >= 0
       /\ last <= count - 1
       /\ rendered <= fits + 2 * overscan + 2

C37_Witness ==
  /\ render.component = "VirtualizedCVEList"
  /\ render.visibleStartRow > 0
  /\ render.visibleEndRow < render.totalRows - 1
  /\ render.visibleEndRow - render.visibleStartRow + 1
       > render.containerHeight \div CARD_HEIGHT + 2 * ITEMS_TO_RENDER_BUFFER

\* C38: in the grid layout every rendered row r holds exactly itemsPerRow
\* cells; cell c shows record r * itemsPerRow + c when that index is below
\* the record count and is an empty placeholder otherwise; placeholders
\* occur only as trailing cells of the final row, and no record is
\* rendered in more than one cell.
C38_GridCells ==
  (render.component = "VirtualizedCVEList" /\ render.cves > 0) =>
    LET itemsPerRow == render.gridColumns
        count == render.cves
        rows == render.visibleItems
        finalRow == CHOOSE k \in 0..count :
                      k * itemsPerRow < count
                      /\ count <= (k + 1) * itemsPerRow
        places == {<<r, c>> : r \in DOMAIN rows, c \in 0..(itemsPerRow - 1)}
    IN /\ DOMAIN rows = render.visibleStartRow..render.visibleEndRow
       /\ \A r \in DOMAIN rows :
            /\ DOMAIN rows[r] = 0..(itemsPerRow - 1)
            /\ Cardinality(DOMAIN rows[r]) = itemsPerRow
       /\ \A p \in places :
            rows[p[1]][p[2]] = IF p[1] * itemsPerRow + p[2] < count
                               THEN Some(p[1] * itemsPerRow + p[2])
                               ELSE Null
       /\ \A p \in places :
            rows[p[1]][p[2]] = Null =>
              /\ p[1] = finalRow
              /\ \A c \in p[2]..(itemsPerRow - 1) : rows[p[1]][c] = Null
       /\ \A p, q \in places :
            (rows[p[1]][p[2]] # Null /\ rows[p[1]][p[2]] = rows[q[1]][q[2]])
              => p = q

C38_Witness ==
  /\ render.component = "VirtualizedCVEList"
  /\ render.gridColumns > 2
  /\ render.visibleStartRow > 0
  /\ render.visibleEndRow >= render.visibleStartRow
  /\ render.visibleItems[render.visibleEndRow][0] # Null
  /\ render.visibleItems[render.visibleEndRow][1] = Null
  /\ render.visibleItems[render.visibleStartRow][render.gridColumns - 1] # Null

\* C40: in the client hook at most one polling timer and at most one
\* periodic-refresh timer exist at any time, whatever the sequence of
\* mount, sync trigger, status results and unmount; after unmount both
\* timers are cleared, and no fetch result arriving later changes the
\* hook's records, loading or error.  Stated of the hook with the periodic
\* refresh.
C40_TimersAndUnmount ==
  /\ [](snapshot = "part_002" =>
          /\ hook.pollingIntervals <= 1
          /\ hook.autoRefreshIntervals <= 1
          /\ hook.phase = "unmounted" =>
               /\ hook.pollingIntervals = 0
               /\ hook.autoRefreshIntervals = 0)
  /\ [][(/\ snapshot = "part_002"
         /\ hook.phase = "unmounted"
         /\ Count(ops', "getAllCVEs") < Count(ops, "getAllCVEs"))
          => /\ hook'.cves = hook.cves
             /\ hook'.loading = hook.loading
             /\ hook'.error = hook.error]_vars

====
